---- MODULE Spec2Model ----
(***************************************************************************)
(* rst2html-fast: the two-pass RST to HTML converter.                      *)
(*                                                                         *)
(* Text is a sequence of one-character strings; a document is a sequence   *)
(* of lines (what rst.lines() yields).  Offsets are zero-based, as in      *)
(* the Rust source: At(s, k) is s[k] and Slice(s, a, b) is &s[a..b].       *)
(* The alphabet is ASCII, so byte offsets and char offsets coincide.       *)
(* The grave accent (U+0060) cannot be written inside a TLA+ string, so    *)
(* that one character is the element Backtick.                             *)
(***************************************************************************)
EXTENDS Integers, Sequences, FiniteSets, TLC

VARIABLES
    rst,                \* the text given to convert (or to process_inline)
    pc,                 \* position of the conversion in convert_with_options
    lines,              \* rst.lines()
    i,                  \* line cursor of the running pass
    state,              \* ConverterState
    section_counters,   \* second_pass: per-level section counters
    html,               \* output accumulated so far / returned string
    assigned,           \* history: <<char, level>> per get_or_assign_level call
    emitted             \* history: one record per block emitted by pass 2

vars == <<rst, pc, lines, i, state, section_counters, html, assigned, emitted>>

\* The grave accent character (U+0060) as an element of a text.
Backtick == "backtick"

\* Option::None of the offsets the searches return.
None == -1

(***************************************************************************)
(* String primitives (Rust str / slice methods)                            *)
(***************************************************************************)
At(s, k) == s[k + 1]

Slice(s, a, b) == SubSeq(s, a + 1, b)

SliceFrom(s, a) == SubSeq(s, a + 1, Len(s))

\* The vertical tab (U+000B), which has no escape in a TLA+ string.
VerticalTab == ""

\* char::is_whitespace on the ASCII alphabet: U+0009 .. U+000D and the space.
IsWs(c) == c \in {" ", "\t", "\n", VerticalTab, "\f", "\r"}

LowerLetters ==
    {"a","b","c","d","e","f","g","h","i","j","k","l","m",
     "n","o","p","q","r","s","t","u","v","w","x","y","z"}

UpperLetters ==
    {"A","B","C","D","E","F","G","H","I","J","K","L","M",
     "N","O","P","Q","R","S","T","U","V","W","X","Y","Z"}

Digits == {"0","1","2","3","4","5","6","7","8","9"}

LowerSeq == <<"a", "b", "c", "d", "e", "f", "g", "h", "i", "j", "k", "l", "m", "n", "o", "p", "q", "r", "s", "t", "u", "v", "w", "x", "y", "z">>

UpperSeq == <<"A", "B", "C", "D", "E", "F", "G", "H", "I", "J", "K", "L", "M", "N", "O", "P", "Q", "R", "S", "T", "U", "V", "W", "X", "Y", "Z">>

DigitSeq == <<"0", "1", "2", "3", "4", "5", "6", "7", "8", "9">>

is_ascii_digit(c) == c \in Digits

is_ascii_alphabetic(c) == c \in LowerLetters \cup UpperLetters

is_alphanumeric(c) == c \in LowerLetters \cup UpperLetters \cup Digits

to_lowercase_char(c) ==
    IF c \in UpperLetters
    THEN LowerSeq[CHOOSE k \in 1..26 : UpperSeq[k] = c]
    ELSE c

to_lowercase(s) == [k \in 1..Len(s) |-> to_lowercase_char(s[k])]

\* Number of leading whitespace characters.
LeadWs(s) ==
    IF \A k \in 1..Len(s) : IsWs(s[k]) THEN Len(s)
    ELSE (CHOOSE k \in 1..Len(s) : ~IsWs(s[k]) /\ \A j \in 1..(k - 1) : IsWs(s[j])) - 1

\* Number of trailing whitespace characters.
TrailWs(s) ==
    IF \A k \in 1..Len(s) : IsWs(s[k]) THEN Len(s)
    ELSE Len(s) - (CHOOSE k \in 1..Len(s) :
                        ~IsWs(s[k]) /\ \A j \in (k + 1)..Len(s) : IsWs(s[j]))

trim_start(s) == SliceFrom(s, LeadWs(s))

trim_end(s) == Slice(s, 0, Len(s) - TrailWs(s))

trim(s) == IF LeadWs(s) = Len(s) THEN <<>> ELSE trim_end(trim_start(s))

\* line.len() - line.trim_start().len()
indent_of(s) == Len(s) - Len(trim_start(s))

starts_with(s, p) == Len(s) >= Len(p) /\ SubSeq(s, 1, Len(p)) = p

ends_with(s, p) == Len(s) >= Len(p) /\ SubSeq(s, Len(s) - Len(p) + 1, Len(s)) = p

MatchAt(s, p, k) == k + Len(p) <= Len(s) /\ Slice(s, k, k + Len(p)) = p

\* str::find: offset of the first occurrence, or None.
find(s, p) ==
    IF \E k \in 0..(Len(s) - Len(p)) : MatchAt(s, p, k)
    THEN CHOOSE k \in 0..(Len(s) - Len(p)) :
            MatchAt(s, p, k) /\ \A j \in 0..(k - 1) : ~MatchAt(s, p, j)
    ELSE None

\* str::rfind: offset of the last occurrence, or None.
rfind(s, p) ==
    IF \E k \in 0..(Len(s) - Len(p)) : MatchAt(s, p, k)
    THEN CHOOSE k \in 0..(Len(s) - Len(p)) :
            MatchAt(s, p, k) /\ \A j \in (k + 1)..(Len(s) - Len(p)) : ~MatchAt(s, p, j)
    ELSE None

contains(s, p) == find(s, p) # None

all_chars(s, c) == \A k \in 1..Len(s) : s[k] = c

\* str::trim_end_matches(c)
RECURSIVE trim_end_matches(_, _)
trim_end_matches(s, c) ==
    IF Len(s) > 0 /\ s[Len(s)] = c
    THEN trim_end_matches(SubSeq(s, 1, Len(s) - 1), c)
    ELSE s

\* str::trim_start_matches(p), p a string pattern.
RECURSIVE trim_start_matches(_, _)
trim_start_matches(s, p) ==
    IF Len(p) > 0 /\ starts_with(s, p)
    THEN trim_start_matches(SliceFrom(s, Len(p)), p)
    ELSE s


\* str::lines(): split at "\n"; a "\r" that stands before the "\n" is no
\* part of the line; a final empty piece is not a line.
RECURSIVE str_lines(_)
str_lines(s) ==
    IF Len(s) = 0 THEN <<>>
    ELSE LET nl == find(s, <<"\n">>)
             without_cr(line) ==
                 IF ends_with(line, <<"\r">>) THEN Slice(line, 0, Len(line) - 1)
                 ELSE line
         IN
         IF nl = None THEN <<s>>
         ELSE <<without_cr(Slice(s, 0, nl))>> \o str_lines(SliceFrom(s, nl + 1))

\* str::replace(pattern, replacement): non-overlapping matches, left to right.
RECURSIVE str_replace(_, _, _)
str_replace(s, p, r) ==
    LET k == find(s, p) IN
    IF Len(p) = 0 \/ k = None THEN s
    ELSE Slice(s, 0, k) \o r \o str_replace(SliceFrom(s, k + Len(p)), p, r)

\* str::splitn(2, p)
splitn2(s, p) ==
    LET k == find(s, p) IN
    IF k = None THEN <<s>> ELSE <<Slice(s, 0, k), SliceFrom(s, k + Len(p))>>

\* usize as decimal text (n.to_string()).
RECURSIVE usize_to_string(_)
usize_to_string(n) ==
    IF n < 10 THEN <<DigitSeq[n + 1]>>
    ELSE usize_to_string(n \div 10) \o <<DigitSeq[(n % 10) + 1]>>

DigitValue(c) == (CHOOSE k \in 1..10 : DigitSeq[k] = c) - 1

\* Two decimal texts without leading zeros, compared as the numbers they are.
decimal_le(a, b) ==
    \/ Len(a) < Len(b)
    \/ /\ Len(a) = Len(b)
       /\ \/ a = b
          \/ \E k \in 1..Len(a) :
                /\ DigitValue(a[k]) < DigitValue(b[k])
                /\ \A j \in 1..(k - 1) : a[j] = b[j]

\* usize::MAX of a 64-bit target.
UsizeMaxText == <<"1", "8", "4", "4", "6", "7", "4", "4", "0", "7", "3", "7", "0", "9", "5", "5", "1", "6", "1", "5">>

\* value.parse::<usize>().unwrap_or(d): decimal digits, an optional leading
\* "+"; a number above usize::MAX does not parse.  A usize of the program is
\* wider than an integer of this model, so the result is the number as its
\* decimal text without leading zeros, and d is given as such a text.
parse_usize_or(s, d) ==
    LET
        body == IF Len(s) > 0 /\ s[1] = "+" THEN Tail(s) ELSE s
        significant == trim_start_matches(body, <<"0">>)
    IN
    IF /\ Len(body) > 0
       /\ \A k \in 1..Len(body) : is_ascii_digit(body[k])
       /\ decimal_le(significant, UsizeMaxText)
    THEN (IF Len(significant) = 0 THEN <<"0">> ELSE significant)
    ELSE d

\* level <= depth, the depth being held as its decimal text.
usize_le(level, depth) == decimal_le(usize_to_string(level), depth)

(***************************************************************************)
(* html_utils.rs                                                           *)
(***************************************************************************)
escape_char(c) ==
    IF c = "&" THEN <<"&", "a", "m", "p", ";">>
    ELSE IF c = "<" THEN <<"&", "l", "t", ";">>
    ELSE IF c = ">" THEN <<"&", "g", "t", ";">>
    ELSE IF c = "\"" THEN <<"&", "q", "u", "o", "t", ";">>
    ELSE <<c>>

\* The concatenation of a sequence of sequences.
RECURSIVE flatten(_)
flatten(blocks) ==
    IF Len(blocks) = 0 THEN <<>>
    ELSE IF Len(blocks) = 1 THEN blocks[1]
    ELSE flatten(SubSeq(blocks, 1, Len(blocks) \div 2))
         \o flatten(SubSeq(blocks, Len(blocks) \div 2 + 1, Len(blocks)))

escape_html(s) == flatten([k \in 1..Len(s) |-> escape_char(s[k])])

\* [T]::join(sep) over strings.
join(ls, sep) ==
    flatten([k \in 1..(2 * Len(ls) - 1) |-> IF k % 2 = 1 THEN ls[(k + 1) \div 2] ELSE sep])

RECURSIVE slug_loop(_, _)
slug_loop(lower, slug) ==
    IF Len(lower) = 0 THEN slug
    ELSE LET ch == lower[1] IN
         slug_loop(Tail(lower),
            IF is_alphanumeric(ch) THEN Append(slug, ch)
            ELSE IF ch = " " \/ ch = "-" \/ ch = "_"
                 THEN (IF ends_with(slug, <<"-">>) THEN slug ELSE Append(slug, "-"))
                 ELSE slug)

slugify(text) == trim_end_matches(slug_loop(to_lowercase(text), <<>>), "-")

is_blank(s) == Len(trim(s)) = 0

dedent_min_indent(ls) ==
    LET nonblank == {k \in 1..Len(ls) : ~is_blank(ls[k])} IN
    IF nonblank = {} THEN 0
    ELSE CHOOSE m \in {indent_of(ls[k]) : k \in nonblank} :
            \A k \in nonblank : m <= indent_of(ls[k])

dedent(text) ==
    LET ls == str_lines(text)
        m  == dedent_min_indent(ls)
    IN IF Len(ls) = 0 THEN <<>>
       ELSE IF m = 0 THEN text
       ELSE join([k \in 1..Len(ls) |->
                    IF Len(ls[k]) >= m THEN SliceFrom(ls[k], m) ELSE ls[k]],
                 <<"\n">>)

(***************************************************************************)
(* roles.rs                                                                *)
(***************************************************************************)
\* Option<(&str, &str)>: display text and target of "Display <target>".
display_target_of(content, a, display) ==
    IF Len(display) > 0
    THEN [ok |-> TRUE, display |-> display,
          target |-> Slice(content, a + 1, Len(content) - 1)]
    ELSE [ok |-> FALSE, display |-> <<>>, target |-> <<>>]

display_and_target(content, a) ==
    IF a # None /\ ends_with(content, <<">">>)
    THEN display_target_of(content, a, trim(Slice(content, 0, a)))
    ELSE [ok |-> FALSE, display |-> <<>>, target |-> <<>>]

parse_display_and_target(content) ==
    display_and_target(content, rfind(content, <<"<">>))

RefLink(href, text) ==
    <<"<", "a", " ", "h", "r", "e", "f", "=", "\"">> \o href \o <<"\"", " ", "c", "l", "a", "s", "s", "=", "\"", "r", "e", "f", "e", "r", "e", "n", "c", "e", " ", "i", "n", "t", "e", "r", "n", "a", "l", "\"", ">">> \o text \o <<"<", "/", "a", ">">>

ref_role_link(content, p) ==
    IF p.ok THEN RefLink(<<"#">> \o escape_html(p.target), escape_html(p.display))
    ELSE RefLink(<<"#">> \o escape_html(content), escape_html(content))

render_ref_role(content) == ref_role_link(content, parse_display_and_target(content))

doc_role_link(content, p) ==
    IF p.ok
    THEN RefLink(escape_html(IF ends_with(p.target, <<".", "h", "t", "m", "l">>) THEN p.target
                             ELSE p.target \o <<".", "h", "t", "m", "l">>),
                 escape_html(p.display))
    ELSE RefLink(escape_html(content \o <<".", "h", "t", "m", "l">>), escape_html(content))

render_doc_role(content) == doc_role_link(content, parse_display_and_target(content))

term_role_link(content, p) ==
    IF p.ok THEN RefLink(<<"#", "t", "e", "r", "m", "-">> \o slugify(p.target), escape_html(p.display))
    ELSE RefLink(<<"#", "t", "e", "r", "m", "-">> \o slugify(content), escape_html(content))

render_term_role(content) == term_role_link(content, parse_display_and_target(content))

abbr_role_html(content, p) ==
    IF p # None /\ ends_with(content, <<")">>)
    THEN <<"<", "a", "b", "b", "r", " ", "t", "i", "t", "l", "e", "=", "\"">> \o escape_html(Slice(content, p + 1, Len(content) - 1))
         \o <<"\"", ">">> \o escape_html(trim(Slice(content, 0, p))) \o <<"<", "/", "a", "b", "b", "r", ">">>
    ELSE <<"<", "a", "b", "b", "r", ">">> \o escape_html(content) \o <<"<", "/", "a", "b", "b", "r", ">">>

render_abbr_role(content) == abbr_role_html(content, find(content, <<"(">>))

role_html(role, content, e) ==
    IF role = <<"e", "m", "p", "h", "a", "s", "i", "s">> THEN <<"<", "e", "m", ">">> \o e \o <<"<", "/", "e", "m", ">">>
    ELSE IF role = <<"s", "t", "r", "o", "n", "g">> THEN <<"<", "s", "t", "r", "o", "n", "g", ">">> \o e \o <<"<", "/", "s", "t", "r", "o", "n", "g", ">">>
    ELSE IF role \in {<<"l", "i", "t", "e", "r", "a", "l">>, <<"c", "o", "d", "e">>} THEN <<"<", "c", "o", "d", "e", ">">> \o e \o <<"<", "/", "c", "o", "d", "e", ">">>
    ELSE IF role \in {<<"s", "u", "b", "s", "c", "r", "i", "p", "t">>, <<"s", "u", "b">>} THEN <<"<", "s", "u", "b", ">">> \o e \o <<"<", "/", "s", "u", "b", ">">>
    ELSE IF role \in {<<"s", "u", "p", "e", "r", "s", "c", "r", "i", "p", "t">>, <<"s", "u", "p">>} THEN <<"<", "s", "u", "p", ">">> \o e \o <<"<", "/", "s", "u", "p", ">">>
    ELSE IF role \in {<<"t", "i", "t", "l", "e", "-", "r", "e", "f", "e", "r", "e", "n", "c", "e">>, <<"t", "i", "t", "l", "e">>, <<"t">>} THEN <<"<", "c", "i", "t", "e", ">">> \o e \o <<"<", "/", "c", "i", "t", "e", ">">>
    ELSE IF role = <<"k", "b", "d">> THEN <<"<", "k", "b", "d", ">">> \o e \o <<"<", "/", "k", "b", "d", ">">>
    ELSE IF role = <<"d", "f", "n">> THEN <<"<", "d", "f", "n", ">">> \o e \o <<"<", "/", "d", "f", "n", ">">>
    ELSE IF role = <<"s", "a", "m", "p">> THEN <<"<", "s", "a", "m", "p", ">">> \o e \o <<"<", "/", "s", "a", "m", "p", ">">>
    ELSE IF role = <<"g", "u", "i", "l", "a", "b", "e", "l">> THEN <<"<", "s", "p", "a", "n", " ", "c", "l", "a", "s", "s", "=", "\"", "g", "u", "i", "l", "a", "b", "e", "l", "\"", ">">> \o e \o <<"<", "/", "s", "p", "a", "n", ">">>
    ELSE IF role = <<"m", "e", "n", "u", "s", "e", "l", "e", "c", "t", "i", "o", "n">>
         THEN <<"<", "s", "p", "a", "n", " ", "c", "l", "a", "s", "s", "=", "\"", "m", "e", "n", "u", "s", "e", "l", "e", "c", "t", "i", "o", "n", "\"", ">">> \o e \o <<"<", "/", "s", "p", "a", "n", ">">>
    ELSE IF role = <<"f", "i", "l", "e">> THEN <<"<", "c", "o", "d", "e", " ", "c", "l", "a", "s", "s", "=", "\"", "f", "i", "l", "e", "\"", ">">> \o e \o <<"<", "/", "c", "o", "d", "e", ">">>
    ELSE IF role = <<"c", "o", "m", "m", "a", "n", "d">> THEN <<"<", "s", "t", "r", "o", "n", "g", " ", "c", "l", "a", "s", "s", "=", "\"", "c", "o", "m", "m", "a", "n", "d", "\"", ">">> \o e \o <<"<", "/", "s", "t", "r", "o", "n", "g", ">">>
    ELSE IF role = <<"p", "r", "o", "g", "r", "a", "m">> THEN <<"<", "s", "t", "r", "o", "n", "g", " ", "c", "l", "a", "s", "s", "=", "\"", "p", "r", "o", "g", "r", "a", "m", "\"", ">">> \o e \o <<"<", "/", "s", "t", "r", "o", "n", "g", ">">>
    ELSE IF role = <<"o", "p", "t", "i", "o", "n">> THEN <<"<", "c", "o", "d", "e", " ", "c", "l", "a", "s", "s", "=", "\"", "o", "p", "t", "i", "o", "n", "\"", ">">> \o e \o <<"<", "/", "c", "o", "d", "e", ">">>
    ELSE IF role = <<"e", "n", "v", "v", "a", "r">> THEN <<"<", "c", "o", "d", "e", " ", "c", "l", "a", "s", "s", "=", "\"", "e", "n", "v", "v", "a", "r", "\"", ">">> \o e \o <<"<", "/", "c", "o", "d", "e", ">">>
    ELSE IF role = <<"m", "a", "k", "e", "v", "a", "r">> THEN <<"<", "c", "o", "d", "e", " ", "c", "l", "a", "s", "s", "=", "\"", "m", "a", "k", "e", "v", "a", "r", "\"", ">">> \o e \o <<"<", "/", "c", "o", "d", "e", ">">>
    ELSE IF role = <<"m", "a", "t", "h">> THEN <<"<", "s", "p", "a", "n", " ", "c", "l", "a", "s", "s", "=", "\"", "m", "a", "t", "h", "-", "i", "n", "l", "i", "n", "e", "\"", ">">> \o e \o <<"<", "/", "s", "p", "a", "n", ">">>
    ELSE IF role = <<"r", "e", "f">> THEN render_ref_role(content)
    ELSE IF role = <<"d", "o", "c">> THEN render_doc_role(content)
    ELSE IF role = <<"t", "e", "r", "m">> THEN render_term_role(content)
    ELSE IF role \in {<<"a", "b", "b", "r">>, <<"a", "b", "b", "r", "e", "v", "i", "a", "t", "i", "o", "n">>} THEN render_abbr_role(content)
    ELSE IF role = <<"p", "e", "p">>
         THEN <<"<", "a", " ", "h", "r", "e", "f", "=", "\"", "h", "t", "t", "p", "s", ":", "/", "/", "p", "e", "p", "s", ".", "p", "y", "t", "h", "o", "n", ".", "o", "r", "g", "/", "p", "e", "p", "-">> \o content \o <<"/", "\"", ">", "P", "E", "P", " ">>
              \o content \o <<"<", "/", "a", ">">>
    ELSE IF role = <<"r", "f", "c">>
         THEN <<"<", "a", " ", "h", "r", "e", "f", "=", "\"", "h", "t", "t", "p", "s", ":", "/", "/", "d", "a", "t", "a", "t", "r", "a", "c", "k", "e", "r", ".", "i", "e", "t", "f", ".", "o", "r", "g", "/", "d", "o", "c", "/", "h", "t", "m", "l", "/", "r", "f", "c">> \o content
              \o <<"\"", ">", "R", "F", "C", " ">> \o content \o <<"<", "/", "a", ">">>
    ELSE IF role \in {<<"c", "l", "a", "s", "s">>, <<"f", "u", "n", "c">>, <<"m", "e", "t", "h">>, <<"m", "o", "d">>, <<"a", "t", "t", "r">>, <<"e", "x", "c">>, <<"o", "b", "j">>,
                      <<"d", "a", "t", "a">>, <<"c", "o", "n", "s", "t">>, <<"t", "y", "p", "e">>}
         THEN <<"<", "c", "o", "d", "e", " ", "c", "l", "a", "s", "s", "=", "\"", "x", "r", "e", "f", "\"", ">">> \o e \o <<"<", "/", "c", "o", "d", "e", ">">>
    ELSE <<"<", "s", "p", "a", "n", " ", "c", "l", "a", "s", "s", "=", "\"", "r", "o", "l", "e", "-">> \o escape_html(role) \o <<"\"", ">">> \o e \o <<"<", "/", "s", "p", "a", "n", ">">>

render_role(role, content) == role_html(role, content, escape_html(content))

(***************************************************************************)
(* inline.rs                                                               *)
(***************************************************************************)
is_rst_escapable(c) ==
    c \in {"_", "{", "}", "[", "]", "(", ")", "#", "+", "-", ".", "!", "~", "|"}

is_inline_start(pos, chars) ==
    \/ pos = 0
    \/ IsWs(At(chars, pos - 1))
    \/ At(chars, pos - 1) \in {"(", "[", "{", "<", "/", "'", "\"", "-"}

\* First offset k >= start satisfying P, or None; P is given as a set of offsets.
FirstFrom(start, cands) ==
    IF \E k \in cands : k >= start
    THEN CHOOSE k \in cands : k >= start /\ \A j \in cands : j >= start => k <= j
    ELSE None

find_inline_code_end(chars, start) ==
    FirstFrom(start, {k \in 0..(Len(chars) - 2) :
                        At(chars, k) = Backtick /\ At(chars, k + 1) = Backtick})

find_triple_star_end(chars, start) ==
    FirstFrom(start, {k \in 0..(Len(chars) - 3) :
                        At(chars, k) = "*" /\ At(chars, k + 1) = "*"
                        /\ At(chars, k + 2) = "*"})

find_double_star_end(chars, start) ==
    FirstFrom(start, {k \in 0..(Len(chars) - 2) :
                        /\ At(chars, k) = "*" /\ At(chars, k + 1) = "*"
                        /\ (k + 2 >= Len(chars) \/ At(chars, k + 2) # "*")})

find_single_star_end(chars, start) ==
    FirstFrom(start, {k \in 0..(Len(chars) - 1) :
                        /\ At(chars, k) = "*"
                        /\ (k + 1 >= Len(chars) \/ At(chars, k + 1) # "*")})

NoSpan == [ok |-> FALSE, a |-> <<>>, b |-> <<>>, end |-> 0]

try_parse_role(chars, start) ==
    LET
        role_span(name_end, close) ==
            IF close = None THEN NoSpan
            ELSE [ok |-> TRUE,
                  a |-> Slice(chars, start + 1, name_end),
                  b |-> Slice(chars, name_end + 2, close),
                  end |-> close + 1]
        role_after_name(name_end) ==
            IF name_end = None THEN NoSpan
            ELSE IF At(chars, name_end) # ":" THEN NoSpan
            ELSE IF name_end = start + 1 THEN NoSpan
            ELSE IF name_end + 1 >= Len(chars) THEN NoSpan
            ELSE IF At(chars, name_end + 1) # Backtick THEN NoSpan
            ELSE role_span(name_end,
                    FirstFrom(name_end + 2,
                       {k \in 0..(Len(chars) - 1) : At(chars, k) = Backtick}))
    IN
    IF start >= Len(chars) THEN NoSpan
    ELSE IF At(chars, start) # ":" THEN NoSpan
    ELSE role_after_name(FirstFrom(start + 1,
               {k \in 0..(Len(chars) - 1) :
                   At(chars, k) = ":" \/ At(chars, k) = Backtick \/ IsWs(At(chars, k))}))

try_parse_external_link(chars, start) ==
    LET
        link_span(text, angle, end_pos) ==
            IF angle # None /\ ends_with(text, <<">">>)
            THEN [ok |-> TRUE,
                  a |-> trim(Slice(text, 0, angle)),
                  b |-> Slice(text, angle + 1, Len(text) - 1),
                  end |-> end_pos]
            ELSE NoSpan
        link_after_tick(tick) ==
            IF tick = None THEN NoSpan
            ELSE link_span(Slice(chars, start + 1, tick),
                           rfind(Slice(chars, start + 1, tick), <<"<">>),
                           IF tick + 2 < Len(chars) /\ At(chars, tick + 2) = "_"
                           THEN tick + 3 ELSE tick + 2)
    IN
    IF start >= Len(chars) THEN NoSpan
    ELSE IF At(chars, start) # Backtick THEN NoSpan
    ELSE link_after_tick(FirstFrom(start + 1,
               {k \in 0..(Len(chars) - 2) :
                   At(chars, k) = Backtick /\ At(chars, k + 1) = "_"}))

try_parse_substitution_ref(chars, start) ==
    LET
        substitution_span(stop) ==
            IF stop = None THEN NoSpan
            ELSE IF At(chars, stop) # "|" THEN NoSpan
            ELSE IF stop = start + 1 THEN NoSpan
            ELSE [ok |-> TRUE, a |-> Slice(chars, start + 1, stop), b |-> <<>>,
                  end |-> stop + 1]
    IN
    IF start >= Len(chars) THEN NoSpan
    ELSE IF At(chars, start) # "|" THEN NoSpan
    ELSE substitution_span(FirstFrom(start + 1,
               {k \in 0..(Len(chars) - 1) : At(chars, k) = "|" \/ At(chars, k) = "\n"}))

\* A variant of inline_plain_char that copies every character unescaped.
unescaped_plain_char(c) == <<c>>

inline_plain_char(c) ==
    IF c = "&" THEN <<"&", "a", "m", "p", ";">>
    ELSE IF c = "<" THEN <<"&", "l", "t", ";">>
    ELSE IF c = ">" THEN <<"&", "g", "t", ";">>
    ELSE <<c>>

\* What each markup test of the scan finds at offset k: the offset of the
\* closing marker (None when the test fails) or the span parsed.
inline_code_at(chars, k) ==
    IF k + 1 < Len(chars) /\ At(chars, k) = Backtick /\ At(chars, k + 1) = Backtick
    THEN find_inline_code_end(chars, k + 2) ELSE None

inline_role_at(chars, k) ==
    IF At(chars, k) = ":" THEN try_parse_role(chars, k) ELSE NoSpan

inline_triple_at(chars, k) ==
    IF k + 2 < Len(chars) /\ At(chars, k) = "*" /\ At(chars, k + 1) = "*"
       /\ At(chars, k + 2) = "*" /\ is_inline_start(k, chars)
    THEN find_triple_star_end(chars, k + 3) ELSE None

inline_double_at(chars, k) ==
    IF k + 1 < Len(chars) /\ At(chars, k) = "*" /\ At(chars, k + 1) = "*"
       /\ is_inline_start(k, chars)
    THEN find_double_star_end(chars, k + 2) ELSE None

inline_single_at(chars, k) ==
    IF At(chars, k) = "*" /\ is_inline_start(k, chars)
    THEN find_single_star_end(chars, k + 1) ELSE None

inline_link_at(chars, k) ==
    IF At(chars, k) = Backtick THEN try_parse_external_link(chars, k) ELSE NoSpan

inline_sub_at(chars, k) ==
    IF At(chars, k) = "|" THEN try_parse_substitution_ref(chars, k) ELSE NoSpan

\* A backslash branch that knows no escape at all.
keep_backslash(n) == [out |-> <<"\\">>, step |-> 1]

\* The backslash branch: n is the character after the backslash.
inline_escape(n) ==
    IF n = " " THEN [out |-> <<>>, step |-> 2]
    ELSE IF n = "\\" THEN [out |-> <<"\\">>, step |-> 2]
    ELSE IF n = "*" THEN [out |-> <<"*">>, step |-> 2]
    ELSE IF n = Backtick THEN [out |-> <<Backtick>>, step |-> 2]
    ELSE IF n = "<" THEN [out |-> <<"&", "l", "t", ";">>, step |-> 2]
    ELSE IF n = ">" THEN [out |-> <<"&", "g", "t", ";">>, step |-> 2]
    ELSE IF is_rst_escapable(n) THEN [out |-> <<n>>, step |-> 2]
    ELSE [out |-> <<"\\">>, step |-> 1]

\* The scan of process_inline from offset k on.  Each iteration of its loop
\* appends a piece to the result and moves the offset: the branches are tried
\* in the order of the source, each with what its test found.
RECURSIVE inline_from(_, _)

inline_piece(out, next) == [out |-> out, next |-> next]

inline_after_escape(k, e) == inline_piece(e.out, k + e.step)

inline_try_sub(chars, k, sub) ==
    IF sub.ok THEN inline_piece(<<"|">> \o sub.a \o <<"|">>, sub.end)
    ELSE inline_piece(inline_plain_char(At(chars, k)), k + 1)

inline_try_link(chars, k, link) ==
    IF link.ok
    THEN inline_piece(<<"<", "a", " ", "h", "r", "e", "f", "=", "\"">> \o escape_html(link.b) \o <<"\"", ">">> \o escape_html(link.a)
                          \o <<"<", "/", "a", ">">>,
                      link.end)
    ELSE inline_try_sub(chars, k, inline_sub_at(chars, k))

inline_try_single(chars, k, sgl) ==
    IF sgl # None
    THEN inline_piece(<<"<", "e", "m", ">">> \o inline_from(Slice(chars, k + 1, sgl), 0) \o <<"<", "/", "e", "m", ">">>, sgl + 1)
    ELSE inline_try_link(chars, k, inline_link_at(chars, k))

inline_try_double(chars, k, dbl) ==
    IF dbl # None
    THEN inline_piece(<<"<", "s", "t", "r", "o", "n", "g", ">">> \o inline_from(Slice(chars, k + 2, dbl), 0) \o <<"<", "/", "s", "t", "r", "o", "n", "g", ">">>,
                      dbl + 2)
    ELSE inline_try_single(chars, k, inline_single_at(chars, k))

inline_try_triple(chars, k, tri) ==
    IF tri # None
    THEN inline_piece(<<"<", "s", "t", "r", "o", "n", "g", ">", "<", "e", "m", ">">> \o escape_html(Slice(chars, k + 3, tri))
                          \o <<"<", "/", "e", "m", ">", "<", "/", "s", "t", "r", "o", "n", "g", ">">>,
                      tri + 3)
    ELSE inline_try_double(chars, k, inline_double_at(chars, k))

inline_try_role(chars, k, role) ==
    IF role.ok THEN inline_piece(render_role(role.a, role.b), role.end)
    ELSE inline_try_triple(chars, k, inline_triple_at(chars, k))

inline_try_code(chars, k, code) ==
    IF code # None
    THEN inline_piece(<<"<", "c", "o", "d", "e", ">">> \o escape_html(Slice(chars, k + 2, code)) \o <<"<", "/", "c", "o", "d", "e", ">">>,
                      code + 2)
    ELSE inline_try_role(chars, k, inline_role_at(chars, k))

\* One iteration of the loop at offset k.
inline_at(chars, k) ==
    IF At(chars, k) = "\\" /\ k + 1 < Len(chars)
    THEN inline_after_escape(k, inline_escape(At(chars, k + 1)))
    ELSE inline_try_code(chars, k, inline_code_at(chars, k))

\* The piece of one iteration and those of the iterations after it.
RECURSIVE inline_then(_, _)
inline_then(chars, piece) ==
    IF piece.next >= Len(chars) THEN piece.out
    ELSE piece.out \o inline_then(chars, inline_at(chars, piece.next))

inline_from(chars, k) ==
    IF k >= Len(chars) THEN <<>>
    ELSE inline_then(chars, inline_piece(<<>>, k))

process_inline(text) == inline_from(text, 0)

(***************************************************************************)
(* Outcomes that are not a returned string                                 *)
(***************************************************************************)
(***************************************************************************)
\* A call that never returns leaves HangMark, and a call that panics leaves
\* PanicMark, as the last element of the text it was building.  Neither is a
\* character, so no text of a document contains them.
HangMark == "HANG"

PanicMark == "PANIC"

\* The output of a renderer this model does not cover (the directives listed
\* in UnmodelledDirectives) and the text of a date, which depends on the clock.
UnmodelledMark == "UNMODELLED"

aborted(text) == Len(text) > 0 /\ text[Len(text)] \in {HangMark, PanicMark}

\* format!-style concatenation that stops at the first part that did not return.
concat(parts) ==
    IF \E k \in 1..Len(parts) : aborted(parts[k])
    THEN flatten(SubSeq(parts, 1,
                        CHOOSE k \in 1..Len(parts) :
                            aborted(parts[k]) /\ \A j \in 1..(k - 1) : ~aborted(parts[j])))
    ELSE flatten(parts)


(***************************************************************************)
(* converter.rs: line predicates                                           *)
(***************************************************************************)
is_adornment_char(c) ==
    c \in {"=", "-", "~", Backtick, ":", "'", "\"", "^", "_", "*", "+", "#", "<", ">"}

is_simple_table_border(line) ==
    LET
        \* is_simple_table_border on the trimmed line t.
        is_border_text(t) ==
            /\ Len(t) > 0
            /\ \A k \in 1..Len(t) : t[k] = "=" \/ t[k] = " "
            /\ contains(t, <<"=">>)
            /\ contains(t, <<" ">>)
    IN
    is_border_text(trim(line))

is_grid_border(t) ==
    /\ starts_with(t, <<"+">>)
    /\ (contains(t, <<"-">>) \/ contains(t, <<"=">>))
    /\ ends_with(t, <<"+">>)

\* No character: what classify_line_adornment yields for any other LineType.
NoChar == ""

classify_line_adornment(line) ==
    LET
        \* parser.rs classify_line, as far as is_section_adornment reads it: the c of
        \* LineType::SectionAdornment(c), or NoChar when the line is classified otherwise.
        classify_trimmed(t) ==
            IF Len(t) = 0 THEN NoChar
            ELSE IF starts_with(t, <<">", ">", ">">>) THEN NoChar
            ELSE IF starts_with(t, <<"|", " ">>) \/ t = <<"|">> THEN NoChar
            ELSE IF t = <<":", ":">> THEN NoChar
            ELSE IF is_grid_border(t) THEN NoChar
            ELSE IF starts_with(t, <<"|">>) /\ ends_with(t, <<"|">>) THEN NoChar
            ELSE IF is_simple_table_border(t) THEN NoChar
            ELSE IF Len(t) >= 4 /\ is_adornment_char(t[1]) /\ all_chars(t, t[1]) THEN t[1]
            ELSE NoChar
    IN
    classify_trimmed(trim(line))

is_section_adornment(line) ==
    /\ Len(line) >= 4
    /\ \/ classify_line_adornment(line) = line[1]
       \/ (all_chars(line, line[1]) /\ is_adornment_char(line[1]))

\* Position (from 1) of ch in chars, or 0.
position_of(ch, chars) ==
    IF \E k \in 1..Len(chars) : chars[k] = ch
    THEN CHOOSE k \in 1..Len(chars) : chars[k] = ch /\ \A j \in 1..(k - 1) : chars[j] # ch
    ELSE 0

\* The level returned (a u8) and section_chars after the call.
get_or_assign_level(ch, chars) ==
    IF position_of(ch, chars) # 0
    THEN [level |-> position_of(ch, chars) % 256, chars |-> chars]
    ELSE [level |-> (Len(chars) + 1) % 256, chars |-> Append(chars, ch)]

(***************************************************************************)
(* converter.rs: ConverterState and pass 1                                 *)
(***************************************************************************)
\* Option<String>: <<>> is None, <<s>> is Some(s).  sectnum_depth, a usize, is
\* held as its decimal text.
ConverterState_new ==
    [section_titles    |-> <<>>,
     section_chars     |-> <<>>,
     substitutions     |-> <<>>,
     target_references |-> <<>>,
     header_content    |-> <<>>,
     footer_content    |-> <<>>,
     sectnum           |-> FALSE,
     sectnum_depth     |-> <<"6">>,
     sectnum_prefix    |-> <<>>,
     sectnum_suffix    |-> <<>>]

\* HashMap<String, String> as a function from the keys present to their values;
\* <<>> is the empty map.
map_insert(m, key, value) ==
    [n \in DOMAIN m \cup {key} |-> IF n = key THEN value ELSE m[n]]

map_has(m, key) == key \in DOMAIN m

map_get(m, key) == m[key]

\* str::split_whitespace: the maximal runs of characters that are no whitespace.
RECURSIVE split_whitespace(_)
split_whitespace(s) ==
    LET
        rest == trim_start(s)
        stop == FirstFrom(0, {k \in 0..(Len(rest) - 1) : IsWs(At(rest, k))})
    IN
    IF Len(rest) = 0 THEN <<>>
    ELSE IF stop = None THEN <<rest>>
    ELSE <<Slice(rest, 0, stop)>> \o split_whitespace(SliceFrom(rest, stop))

HexDigitSeq == <<"0", "1", "2", "3", "4", "5", "6", "7", "8", "9", "a", "b", "c", "d", "e", "f">>

RECURSIVE radix_value(_, _)
radix_value(digits, radix) ==
    IF Len(digits) = 0 THEN 0
    ELSE radix * radix_value(SubSeq(digits, 1, Len(digits) - 1), radix)
         + (CHOOSE k \in 1..16 : HexDigitSeq[k] = to_lowercase_char(digits[Len(digits)])) - 1

\* u32::from_str_radix(s, radix) and str::parse::<u32>() (radix 10), followed
\* by char::from_u32: an optional "+", then one digit or more.  Any other
\* text, a value that does not fit 32 bits and a value above U+10FFFF all
\* give None; a number of more than 7 significant digits, in radix 10 or 16,
\* is above U+10FFFF.
parse_code_point(s, radix) ==
    LET
        body == IF Len(s) > 0 /\ s[1] = "+" THEN Tail(s) ELSE s
        significant == trim_start_matches(body, <<"0">>)
    IN
    IF /\ Len(body) > 0
       /\ \A k \in 1..Len(body) :
              \E d \in 1..radix : HexDigitSeq[d] = to_lowercase_char(body[k])
       /\ Len(significant) <= 7
       /\ radix_value(significant, radix) <= 1114111
    THEN radix_value(significant, radix)
    ELSE None

\* The characters U+0020 .. U+007E in the order of their code points.
PrintableAscii ==
    <<" ", "!", "\"", "#", "$", "%", "&", "'", "(", ")", "*", "+", ",", "-", ".", "/", "0", "1", "2", "3", "4", "5", "6", "7", "8", "9", ":", ";", "<", "=", ">", "?", "@", "A", "B", "C", "D", "E", "F", "G", "H", "I", "J", "K", "L", "M", "N", "O", "P", "Q", "R", "S", "T", "U", "V", "W", "X", "Y", "Z", "[", "\\", "]", "^", "_", Backtick, "a", "b", "c", "d", "e", "f", "g", "h", "i", "j", "k", "l", "m", "n", "o", "p", "q", "r", "s", "t", "u", "v", "w", "x", "y", "z", "{", "|", "}", "~">>

\* usize as upper-case hexadecimal text.
RECURSIVE hex_text(_)
hex_text(n) ==
    IF n < 16 THEN <<"0", "1", "2", "3", "4", "5", "6", "7", "8", "9", "A", "B", "C", "D", "E", "F">>[n + 1]
    ELSE hex_text(n \div 16) \o <<"0", "1", "2", "3", "4", "5", "6", "7", "8", "9", "A", "B", "C", "D", "E", "F">>[(n % 16) + 1]

\* char::from_u32(code) as a text of one character, or of none when the code
\* is a surrogate.  A character the alphabet has no string for is the element
\* "U+" and its code.
char_from_u32(code) ==
    IF code \in 55296..57343 THEN <<>>
    ELSE IF code \in 32..126 THEN <<PrintableAscii[code - 31]>>
    ELSE IF code = 9 THEN <<"\t">>
    ELSE IF code = 10 THEN <<"\n">>
    ELSE IF code = 11 THEN <<VerticalTab>>
    ELSE IF code = 12 THEN <<"\f">>
    ELSE IF code = 13 THEN <<"\r">>
    ELSE <<"U+" \o hex_text(code)>>

\* The character a token of a unicode substitution stands for.
unicode_token(part) ==
    LET
        decoded(code) == IF code = None THEN <<>> ELSE char_from_u32(code)
    IN
    IF starts_with(part, <<"0", "x">>) \/ starts_with(part, <<"0", "X">>)
    THEN decoded(parse_code_point(SliceFrom(part, 2), 16))
    ELSE decoded(parse_code_point(part, 10))

\* str::parse::<u32>() succeeds: an optional "+", then one decimal digit or
\* more, the number being at most u32::MAX.
parses_u32(s) ==
    LET
        body == IF Len(s) > 0 /\ s[1] = "+" THEN Tail(s) ELSE s
    IN
    /\ Len(body) > 0
    /\ \A k \in 1..Len(body) : is_ascii_digit(body[k])
    /\ decimal_le(trim_start_matches(body, <<"0">>), <<"4", "2", "9", "4", "9", "6", "7", "2", "9", "5">>)

\* The conversion specifiers of chrono's strftime that stand for one number,
\* the only ones a padding modifier ("-", "0", "_") may precede, and the
\* other specifiers of one character.
StrftimeNumeric ==
    {"C", "G", "H", "I", "M", "S", "U", "V", "W", "Y", "d", "e", "f", "g", "j", "k", "l",
     "m", "q", "s", "u", "w", "y"}

StrftimeOther ==
    {"A", "B", "D", "F", "P", "R", "T", "X", "Z", "a", "b", "c", "h", "n", "p", "r", "t",
     "v", "x", "z", "+", "%"}

\* The specifier that follows a "%" when it starts at offset k of the format:
\* the offset behind it, or None when there is no such specifier that chrono
\* can write.  A padding modifier goes with a numeric specifier only; "#z"
\* is an item for parsing, which to_string fails to write as it fails on an
\* unknown one.
strftime_specifier_end(format, k, padded) ==
    IF k >= Len(format) THEN None
    ELSE IF At(format, k) \in StrftimeNumeric THEN k + 1
    ELSE IF padded THEN None
    ELSE IF At(format, k) \in StrftimeOther THEN k + 1
    ELSE IF At(format, k) = ":"
    THEN (IF MatchAt(format, <<":", ":", "z">>, k + 1) THEN k + 4
          ELSE IF MatchAt(format, <<":", "z">>, k + 1) THEN k + 3
          ELSE IF MatchAt(format, <<"z">>, k + 1) THEN k + 2
          ELSE None)
    ELSE IF At(format, k) = "."
    THEN (IF MatchAt(format, <<"3", "f">>, k + 1) \/ MatchAt(format, <<"6", "f">>, k + 1)
             \/ MatchAt(format, <<"9", "f">>, k + 1)
          THEN k + 3
          ELSE IF MatchAt(format, <<"f">>, k + 1) THEN k + 2
          ELSE None)
    ELSE IF At(format, k) \in {"3", "6", "9"}
    THEN (IF MatchAt(format, <<"f">>, k + 1) THEN k + 2 ELSE None)
    ELSE None

\* The item of the format that starts with the "%" at offset k.
strftime_item_end(format, k) ==
    IF k + 1 < Len(format) /\ At(format, k + 1) \in {"-", "0", "_"}
    THEN strftime_specifier_end(format, k + 2, TRUE)
    ELSE strftime_specifier_end(format, k + 1, FALSE)

\* The format from offset k on holds items chrono can write only.
RECURSIVE strftime_valid_from(_, _)
strftime_valid_from(format, k) ==
    IF k >= Len(format) THEN TRUE
    ELSE IF At(format, k) # "%" THEN strftime_valid_from(format, k + 1)
    ELSE IF strftime_item_end(format, k) = None THEN FALSE
    ELSE strftime_valid_from(format, strftime_item_end(format, k))

\* now.format(format).to_string() for the clock of the run (chrono).  The
\* call panics on a format with an item chrono cannot write.  A format
\* without a "%" is written as it is; the text of any other format depends on
\* the clock and is left unmodelled.
format_now(format) ==
    IF ~strftime_valid_from(format, 0) THEN <<PanicMark>>
    ELSE IF contains(format, <<"%">>) THEN <<UnmodelledMark>>
    ELSE format

\* process_substitution.
process_substitution(dir_type, args) ==
    LET
        parts == split_whitespace(args)
    IN
    IF dir_type = <<"i", "m", "a", "g", "e">> THEN <<"<", "i", "m", "g", " ", "s", "r", "c", "=", "\"">> \o escape_html(args) \o <<"\"", " ", "a", "l", "t", "=", "\"", "\"", ">">>
    ELSE IF dir_type = <<"r", "e", "p", "l", "a", "c", "e">> THEN process_inline(args)
    ELSE IF dir_type = <<"d", "a", "t", "e">>
    THEN format_now(IF Len(args) = 0 THEN <<"%", "Y", "-", "%", "m", "-", "%", "d">> ELSE args)
    ELSE IF dir_type = <<"u", "n", "i", "c", "o", "d", "e">>
    THEN concat([k \in 1..Len(parts) |-> unicode_token(parts[k])])
    ELSE args

RECURSIVE sectnum_options(_, _, _)
sectnum_options(ls, j, st) ==
    LET
        \* The :depth:/:prefix:/:suffix: option lines that follow ".. sectnum::".
        sectnum_option(name, value) ==
            IF name = <<"d", "e", "p", "t", "h">> THEN [st EXCEPT !.sectnum_depth = parse_usize_or(value, <<"6">>)]
            ELSE IF name = <<"p", "r", "e", "f", "i", "x">> THEN [st EXCEPT !.sectnum_prefix = value]
            ELSE IF name = <<"s", "u", "f", "f", "i", "x">> THEN [st EXCEPT !.sectnum_suffix = value]
            ELSE st
        \* One option line; end is the offset of the closing colon after the first.
        sectnum_option_line(opt_line, end) ==
            IF end = None THEN st
            ELSE sectnum_option(Slice(opt_line, 1, end + 1),
                                trim(SliceFrom(opt_line, end + 2)))
        sectnum_options_at(opt_line) ==
            IF ~starts_with(opt_line, <<":">>) THEN st
            ELSE sectnum_options(ls, j + 1,
                    sectnum_option_line(opt_line, find(SliceFrom(opt_line, 1), <<":">>)))
    IN
    IF j >= Len(ls) THEN st ELSE sectnum_options_at(trim(ls[j + 1]))

\* The content loop shared by the header and footer directives of pass 1.
RECURSIVE header_footer_content(_, _, _, _)
header_footer_content(ls, i0, j, content) ==
    IF j >= Len(ls) THEN content
    ELSE LET cl == ls[j + 1] IN
         IF is_blank(cl) /\ j > i0 + 1 THEN content
         ELSE IF indent_of(cl) > 0 \/ is_blank(cl)
              THEN header_footer_content(ls, i0, j + 1,
                      (IF Len(content) > 0 THEN content \o <<"\n">> ELSE content)
                      \o trim(cl))
         ELSE IF j > i0 + 1 THEN content
         ELSE header_footer_content(ls, i0, j + 1, content)

fp_is_title(ls, k) ==
    /\ k + 1 < Len(ls)
    /\ Len(trim(ls[k + 1])) > 0
    /\ is_section_adornment(trim(ls[k + 2]))
    /\ Len(trim(ls[k + 2])) >= Len(trim(ls[k + 1]))

is_overlined(ls, k) ==
    /\ k + 2 < Len(ls)
    /\ is_section_adornment(trim(ls[k + 1]))
    /\ Len(trim(ls[k + 2])) > 0
    /\ is_section_adornment(trim(ls[k + 3]))
    /\ trim(ls[k + 1])[1] = trim(ls[k + 3])[1]

first_pass_directive(ls, k, st) ==
    LET
        \* ".. |name| type:: args": after is the text behind the second bar and
        \* colon_pos the offset of "::" in it.
        substitution_entry(name, after, colon_pos) ==
            IF colon_pos # None
            THEN [st EXCEPT !.substitutions =
                     map_insert(@, name,
                        process_substitution(trim(Slice(after, 0, colon_pos)),
                                             trim(SliceFrom(after, colon_pos + 2))))]
            ELSE st
        substitution_line(rest, pipe_end) ==
            IF pipe_end # None
            THEN substitution_entry(Slice(rest, 1, pipe_end + 1),
                                    trim(SliceFrom(rest, pipe_end + 2)),
                                    find(trim(SliceFrom(rest, pipe_end + 2)), <<":", ":">>))
            ELSE st
        \* ".. _name: url": tcolon is the offset of ": " in target_rest.
        target_line(target_rest, tcolon) ==
            IF tcolon # None
            THEN [st EXCEPT !.target_references =
                     Append(@, <<trim(Slice(target_rest, 0, tcolon)),
                                 trim(SliceFrom(target_rest, tcolon + 2))>>)]
            ELSE st
        \* The metadata a ".. " line at offset k adds in pass 1; rest is the line
        \* behind the ".. ".
        first_pass_rest(rest) ==
            IF starts_with(rest, <<"|">>)
            THEN substitution_line(rest, find(SliceFrom(rest, 1), <<"|">>))
            ELSE IF starts_with(rest, <<"_">>)
            THEN target_line(SliceFrom(rest, 1), find(SliceFrom(rest, 1), <<":", " ">>))
            ELSE IF starts_with(rest, <<"s", "e", "c", "t", "n", "u", "m", ":", ":">>)
            THEN sectnum_options(ls, k + 1, [st EXCEPT !.sectnum = TRUE])
            ELSE IF starts_with(rest, <<"h", "e", "a", "d", "e", "r", ":", ":">>)
            THEN [st EXCEPT !.header_content = <<header_footer_content(ls, k, k + 1, <<>>)>>]
            ELSE IF starts_with(rest, <<"f", "o", "o", "t", "e", "r", ":", ":">>)
            THEN [st EXCEPT !.footer_content = <<header_footer_content(ls, k, k + 1, <<>>)>>]
            ELSE st
    IN
    first_pass_rest(SliceFrom(trim(ls[k + 1]), 3))

\* One iteration of the loop of first_pass at line offset k: the next offset,
\* the state, and the get_or_assign_level call made (as <<ch, level>>), if any.
first_pass_step(ls, k, st) ==
    LET
        \* A title found by pass 1: ch is its adornment character, g the result of
        \* get_or_assign_level.
        first_pass_title(kind, next, text, ch, g) ==
            [kind |-> kind, next |-> next,
             st |-> [st EXCEPT !.section_chars = g.chars,
                               !.section_titles = Append(@, <<g.level, text>>)],
             call |-> <<<<ch, g.level>>>>]
    IN
    IF fp_is_title(ls, k)
    THEN first_pass_title("title", k + 2, trim(ls[k + 1]), trim(ls[k + 2])[1],
            get_or_assign_level(trim(ls[k + 2])[1], st.section_chars))
    ELSE IF is_overlined(ls, k)
    THEN first_pass_title("overline", k + 3, trim(ls[k + 2]), trim(ls[k + 1])[1],
            get_or_assign_level(trim(ls[k + 1])[1], st.section_chars))
    ELSE IF starts_with(trim(ls[k + 1]), <<".", ".", " ">>)
    THEN [kind |-> "directive", next |-> k + 1,
          st |-> first_pass_directive(ls, k, st), call |-> <<>>]
    ELSE [kind |-> "other", next |-> k + 1, st |-> st, call |-> <<>>]

\* first_pass panicked: process_substitution did not return, and the entry it
\* was called for holds PanicMark.
first_pass_panicked(st) ==
    \E name \in DOMAIN st.substitutions : aborted(st.substitutions[name])

\* first_pass as a whole, from offset k; a panic ends it.
RECURSIVE first_pass_from(_, _, _)
first_pass_from(ls, k, st) ==
    LET
        first_pass_continue(s) == first_pass_from(ls, s.next, s.st)
    IN
    IF k >= Len(ls) \/ first_pass_panicked(st) THEN st
    ELSE first_pass_continue(first_pass_step(ls, k, st))

(***************************************************************************)
(* converter.rs: block collectors of pass 2                                *)
(***************************************************************************)
\* lines[a..b].join("\n")
join_lines(ls, a, b) == join(SubSeq(ls, a + 1, b), <<"\n">>)

RECURSIVE simple_table_third_border(_, _)
simple_table_third_border(ls, j) ==
    IF j >= Len(ls) THEN None
    ELSE IF is_blank(ls[j + 1]) THEN None
    ELSE IF is_simple_table_border(trim(ls[j + 1])) THEN j
    ELSE simple_table_third_border(ls, j + 1)

RECURSIVE simple_table_end(_, _)
simple_table_end(ls, end) ==
    LET
        \* The end of the table once a second border is seen at offset end: j is the
        \* third border, if any.
        after_second_border(j) == IF j # None THEN j + 1 ELSE end + 1
    IN
    IF end >= Len(ls) THEN end
    ELSE IF is_simple_table_border(trim(ls[end + 1]))
         THEN after_second_border(simple_table_third_border(ls, end + 1))
    ELSE IF is_blank(ls[end + 1]) THEN end
    ELSE simple_table_end(ls, end + 1)

collect_simple_table(ls, start) ==
    LET
        \* lines[start..end].join("\n") with the end it was cut at.
        text_to(end) == [text |-> join_lines(ls, start, end), end |-> end]
    IN
    text_to(simple_table_end(ls, start + 1))

RECURSIVE grid_table_end(_, _)
grid_table_end(ls, end) ==
    LET
        grid_row_text(t) == starts_with(t, <<"+">>) \/ starts_with(t, <<"|">>)
    IN
    IF end >= Len(ls) THEN end
    ELSE IF ~grid_row_text(trim(ls[end + 1])) THEN end
    ELSE grid_table_end(ls, end + 1)

collect_grid_table(ls, start) ==
    LET
        \* lines[start..end].join("\n") with the end it was cut at.
        text_to(end) == [text |-> join_lines(ls, start, end), end |-> end]
    IN
    text_to(grid_table_end(ls, start + 1))

is_grid_table(text) ==
    LET
        \* tables.rs
        grid_lines(ls) == Len(ls) >= 3 /\ is_grid_border(trim(ls[1]))
    IN
    grid_lines(str_lines(text))

\* The second colon of a ":name: value" line, as an offset into trimmed[1..].
second_colon(trimmed) == find(SliceFrom(trimmed, 1), <<":">>)

RECURSIVE directive_options(_, _, _)
directive_options(ls, k, opts) ==
    LET
        is_directive_option(line, trimmed) ==
            /\ Len(trimmed) > 0
            /\ indent_of(line) > 0
            /\ starts_with(trimmed, <<":">>)
            /\ second_colon(trimmed) # None
        \* An option line ":name: value": trimmed is the line, e its second colon.
        option_insert(trimmed, e) ==
            map_insert(opts, Slice(trimmed, 1, e + 1), trim(SliceFrom(trimmed, e + 2)))
    IN
    IF k >= Len(ls) THEN [i |-> k, options |-> opts]
    ELSE IF is_directive_option(ls[k + 1], trim(ls[k + 1]))
    THEN directive_options(ls, k + 1,
            option_insert(trim(ls[k + 1]), second_colon(trim(ls[k + 1]))))
    ELSE [i |-> k, options |-> opts]

RECURSIVE directive_content(_, _, _)
directive_content(ls, k, acc) ==
    IF k >= Len(ls) THEN [i |-> k, content_lines |-> acc]
    ELSE IF is_blank(ls[k + 1])
         THEN IF k + 1 < Len(ls) /\ indent_of(ls[k + 2]) > 0 /\ ~is_blank(ls[k + 2])
              THEN directive_content(ls, k + 1, Append(acc, <<>>))
              ELSE [i |-> k, content_lines |-> acc]
    ELSE IF indent_of(ls[k + 1]) = 0 THEN [i |-> k, content_lines |-> acc]
    ELSE directive_content(ls, k + 1, Append(acc, ls[k + 1]))

collect_directive(ls, start) ==
    LET
        \* k, or k + 1 when line k is blank.
        skip_one_blank(k) == IF k < Len(ls) /\ is_blank(ls[k + 1]) THEN k + 1 ELSE k
        \* The options o already read and the content c read after them.
        directive_parts(o, c) ==
            [options |-> o.options,
             content |-> IF Len(c.content_lines) = 0 THEN <<>>
                         ELSE dedent(join(c.content_lines, <<"\n">>)),
             end |-> c.i]
        directive_after_options(o) ==
            directive_parts(o, directive_content(ls, skip_one_blank(o.i), <<>>))
    IN
    directive_after_options(directive_options(ls, skip_one_blank(start), <<>>))

RECURSIVE skip_indented_loop(_, _)
skip_indented_loop(ls, k) ==
    IF k >= Len(ls) THEN k
    ELSE IF is_blank(ls[k + 1])
         THEN IF k + 1 < Len(ls) /\ ~is_blank(ls[k + 2]) /\ indent_of(ls[k + 2]) > 0
              THEN skip_indented_loop(ls, k + 1)
              ELSE k + 1
    ELSE IF indent_of(ls[k + 1]) = 0 THEN k
    ELSE skip_indented_loop(ls, k + 1)

skip_indented_block(ls, start) == skip_indented_loop(ls, start + 1)

RECURSIVE skip_blank_lines(_, _)
skip_blank_lines(ls, k) ==
    IF k < Len(ls) /\ is_blank(ls[k + 1]) THEN skip_blank_lines(ls, k + 1) ELSE k

RECURSIVE indented_block_loop(_, _, _)
indented_block_loop(ls, k, acc) ==
    IF k >= Len(ls) THEN [content_lines |-> acc, end |-> k]
    ELSE IF is_blank(ls[k + 1])
         THEN IF k + 1 < Len(ls) /\ ~is_blank(ls[k + 2]) /\ indent_of(ls[k + 2]) > 0
              THEN indented_block_loop(ls, k + 1, Append(acc, <<>>))
              ELSE [content_lines |-> acc, end |-> k]
    ELSE IF indent_of(ls[k + 1]) = 0 THEN [content_lines |-> acc, end |-> k]
    ELSE indented_block_loop(ls, k + 1, Append(acc, ls[k + 1]))

collect_indented_block(ls, start) ==
    LET
        indented_block(r) == [content |-> join(r.content_lines, <<"\n">>), end |-> r.end]
    IN
    indented_block(indented_block_loop(ls, skip_blank_lines(ls, start), <<>>))

RECURSIVE first_blank_from(_, _)
first_blank_from(ls, k) ==
    IF k < Len(ls) /\ ~is_blank(ls[k + 1]) THEN first_blank_from(ls, k + 1) ELSE k

collect_doctest_block(ls, start) ==
    LET
        doctest_to(end) == [block |-> join_lines(ls, start, end), end |-> end]
    IN
    doctest_to(first_blank_from(ls, start))

RECURSIVE line_block_loop(_, _, _)
line_block_loop(ls, k, out) ==
    LET
        \* One "| text" line: content is the text behind the bar and the space.
        line_block_line(content, leading_spaces) ==
            IF leading_spaces > 0
            THEN <<"<", "d", "i", "v", " ", "c", "l", "a", "s", "s", "=", "\"", "l", "i", "n", "e", "\"", " ", "s", "t", "y", "l", "e", "=", "\"", "m", "a", "r", "g", "i", "n", "-", "l", "e", "f", "t", ":", " ">>
                 \o usize_to_string(leading_spaces) \o <<"e", "m", "\"", ">">>
                 \o process_inline(trim(content)) \o <<"<", "/", "d", "i", "v", ">", "\n">>
            ELSE <<"<", "d", "i", "v", " ", "c", "l", "a", "s", "s", "=", "\"", "l", "i", "n", "e", "\"", ">">> \o process_inline(content) \o <<"<", "/", "d", "i", "v", ">", "\n">>
        line_block_content(content) ==
            line_block_line(content, Len(content) - Len(trim_start(content)))
        line_block_at(trimmed) ==
            IF trimmed = <<"|">>
            THEN line_block_loop(ls, k + 1, out \o <<"<", "d", "i", "v", " ", "c", "l", "a", "s", "s", "=", "\"", "l", "i", "n", "e", "\"", ">", "<", "b", "r", ">", "<", "/", "d", "i", "v", ">", "\n">>)
            ELSE IF starts_with(trimmed, <<"|", " ">>)
            THEN line_block_loop(ls, k + 1, out \o line_block_content(SliceFrom(trimmed, 2)))
            ELSE [html |-> out, end |-> k]
    IN
    IF k >= Len(ls) THEN [html |-> out, end |-> k]
    ELSE line_block_at(trim(ls[k + 1]))

convert_line_block(ls, start) ==
    LET
        line_block_closed(r) == [html |-> r.html \o <<"<", "/", "d", "i", "v", ">">>, end |-> r.end]
    IN
    line_block_closed(line_block_loop(ls, start, <<"<", "d", "i", "v", " ", "c", "l", "a", "s", "s", "=", "\"", "l", "i", "n", "e", "-", "b", "l", "o", "c", "k", "\"", ">", "\n">>))

is_bullet(t) ==
    starts_with(t, <<"-", " ">>) \/ starts_with(t, <<"*", " ">>) \/ starts_with(t, <<"+", " ">>)

strip_bullet_marker(line) ==
    LET
        \* lists.rs
        strip_bullet_text(t) ==
            IF is_bullet(t) THEN SliceFrom(t, 2)
            ELSE IF starts_with(t, <<"-">>) \/ starts_with(t, <<"*">>) \/ starts_with(t, <<"+">>)
                 THEN (IF Len(t) > 1 THEN trim_start(SliceFrom(t, 1)) ELSE <<>>)
            ELSE line
    IN
    strip_bullet_text(trim_start(line))

\* The lines of a directive nested in a list item.
RECURSIVE item_directive_loop(_, _, _)
item_directive_loop(ls, k, content) ==
    IF k >= Len(ls) THEN [content |-> content, i |-> k]
    ELSE IF is_blank(ls[k + 1])
         THEN IF k + 1 < Len(ls) /\ indent_of(ls[k + 2]) > 0
              THEN item_directive_loop(ls, k + 1, content \o <<"\n">> \o ls[k + 1])
              ELSE [content |-> content, i |-> k]
    ELSE IF indent_of(ls[k + 1]) = 0 THEN [content |-> content, i |-> k]
    ELSE item_directive_loop(ls, k + 1, content \o <<"\n">> \o ls[k + 1])

RECURSIVE item_content_loop(_, _, _)
item_content_loop(ls, k, content) ==
    LET
        item_after_directive(d) == item_content_loop(ls, d.i, d.content)
        item_content_at(trimmed) ==
            IF Len(trimmed) = 0
            THEN IF k + 1 < Len(ls) /\ indent_of(ls[k + 2]) > 0 /\ ~is_blank(ls[k + 2])
                 THEN item_content_loop(ls, k + 1, content \o <<"\n">>)
                 ELSE [content |-> content, end |-> k]
            ELSE IF indent_of(ls[k + 1]) = 0 THEN [content |-> content, end |-> k]
            ELSE IF is_bullet(trimmed)
            THEN item_content_loop(ls, k + 1, content \o <<"\n", "_", "N", "E", "S", "T", "E", "D", "_", "B", "U", "L", "L", "E", "T", "_">> \o trimmed)
            ELSE IF starts_with(trimmed, <<".", ".", " ">>)
            THEN item_after_directive(item_directive_loop(ls, k + 1, content \o <<"\n", "_", "N", "E", "S", "T", "E", "D", "_", "D", "I", "R", "E", "C", "T", "I", "V", "E", "_">> \o trimmed))
            ELSE item_content_loop(ls, k + 1, content \o <<" ">> \o trimmed)
    IN
    IF k >= Len(ls) THEN [content |-> content, end |-> k]
    ELSE item_content_at(trim(ls[k + 1]))

collect_list_item_content(ls, start, first_line) ==
    item_content_loop(ls, start + 1, first_line)

is_valid_enum(s) ==
    \/ s = <<"#">>
    \/ \A k \in 1..Len(s) : is_ascii_digit(s[k])
    \/ (Len(s) = 1 /\ is_ascii_alphabetic(s[1]))
    \/ \A k \in 1..Len(s) :
          to_lowercase_char(s[k]) \in {"i", "v", "x", "l", "c", "d", "m"}

\* str::get(a..a+1) == Some(" ")
space_at(s, a) == a < Len(s) /\ At(s, a) = " "

is_enumerated_item(s) ==
    LET
        \* "(x) ": close is the offset of the first ")".
        parenthesized_item(t, close) ==
            close # None /\ is_valid_enum(Slice(t, 1, close)) /\ space_at(t, close + 1)
        \* "x. " and "x) ": stop is the offset of the first ".", ")" or " ".
        marked_item(t, stop) ==
            IF stop = None THEN FALSE
            ELSE IF At(t, stop) = " " \/ stop = 0 THEN FALSE
            ELSE is_valid_enum(Slice(t, 0, stop)) /\ space_at(t, stop + 1)
        is_enumerated_text(t) ==
            IF Len(t) = 0 THEN FALSE
            ELSE IF starts_with(t, <<"(">>) THEN parenthesized_item(t, find(t, <<")">>))
            ELSE marked_item(t, FirstFrom(0, {k \in 0..(Len(t) - 1) : At(t, k) \in {".", ")", " "}}))
    IN
    is_enumerated_text(trim(s))

\* parser.rs: the enumerated-item test of classify_line, with
\* is_valid_enum_marker.
is_enumerated_list_item(s) ==
    LET
        is_valid_enum_marker(m) ==
            /\ Len(m) > 0
            /\ \/ m = <<"#">>
               \/ \A k \in 1..Len(m) : is_ascii_digit(m[k])
               \/ Len(m) = 1 /\ is_ascii_alphabetic(m[1])
               \/ \A k \in 1..Len(m) :
                     to_lowercase_char(m[k]) \in {"i", "v", "x", "l", "c", "d", "m"}
        parenthesized_item(close) ==
            close # None /\ is_valid_enum_marker(Slice(s, 1, close)) /\ space_at(s, close + 1)
        marked_item(stop) ==
            IF stop = None THEN FALSE
            ELSE IF At(s, stop) = " " \/ stop = 0 THEN FALSE
            ELSE is_valid_enum_marker(Slice(s, 0, stop)) /\ space_at(s, stop + 1)
    IN
    IF starts_with(s, <<"(">>) THEN parenthesized_item(find(s, <<")">>))
    ELSE marked_item(FirstFrom(0, {k \in 0..(Len(s) - 1) : At(s, k) \in {".", ")", " "}}))

\* lists.rs
is_valid_enumerator(s) ==
    /\ Len(s) > 0
    /\ \/ s = <<"#">>
       \/ \A k \in 1..Len(s) : is_ascii_digit(s[k])
       \/ (Len(s) = 1 /\ is_ascii_alphabetic(s[1]))
       \/ \A k \in 1..Len(s) :
             to_lowercase_char(s[k]) \in {"i", "v", "x", "l", "c", "d", "m"}

strip_enumerated_marker(line) ==
    LET
        \* lists.rs
        strip_paren_pos(t, paren_pos) ==
            IF paren_pos # None /\ is_valid_enumerator(Slice(t, 0, paren_pos))
            THEN SliceFrom(t, paren_pos + 2)
            ELSE line
        strip_dot_pos(t, dot_pos) ==
            IF dot_pos # None /\ is_valid_enumerator(Slice(t, 0, dot_pos))
            THEN SliceFrom(t, dot_pos + 2)
            ELSE strip_paren_pos(t, find(t, <<")", " ">>))
        strip_close(t, close) ==
            IF starts_with(t, <<"(">>) /\ close # None /\ is_valid_enumerator(Slice(t, 1, close))
            THEN trim_start(SliceFrom(t, close + 1))
            ELSE strip_dot_pos(t, find(t, <<".", " ">>))
        strip_enumerated_text(t) ==
            IF starts_with(t, <<"(">>) THEN strip_close(t, find(t, <<")">>))
            ELSE strip_dot_pos(t, find(t, <<".", " ">>))
    IN
    strip_enumerated_text(trim_start(line))

is_option_line(line) ==
    LET
        \* lists.rs
        is_option_text(t) ==
            IF Len(t) = 0 THEN FALSE
            ELSE IF t[1] = "-"
                 THEN IF Len(t) >= 2
                      THEN IF t[2] = "-"
                           THEN Len(t) >= 3 /\ is_alphanumeric(t[3])
                           ELSE is_alphanumeric(t[2])
                      ELSE FALSE
            ELSE IF t[1] = "/"
                 THEN Len(t) >= 2 /\ is_alphanumeric(t[2])
            ELSE FALSE
    IN
    is_option_text(trim(line))

\* lists.rs
is_option_list(text) ==
    LET
        \* At least one option line, and at least half of the non-blank lines.
        enough_options(total, option_count) ==
            total > 0 /\ option_count > 0 /\ option_count * 2 >= total
        option_line_count(ls) ==
            enough_options(Cardinality({k \in 1..Len(ls) : ~is_blank(ls[k])}),
                           Cardinality({k \in 1..Len(ls) :
                                          ~is_blank(ls[k]) /\ is_option_line(trim(ls[k]))}))
    IN
    option_line_count(str_lines(text))

collect_option_list(ls, start) ==
    LET
        option_text_to(end) ==
            [text |-> join([k \in 1..(end - start) |-> trim(ls[start + k])], <<"\n">>),
             end |-> end]
    IN
    option_text_to(first_blank_from(ls, start))

\* lists.rs: offset of the first space that follows a non-space and precedes a space.
find_description_start(s) ==
    FirstFrom(0, {k \in 0..(Len(s) - 2) :
                    /\ At(s, k) = " " /\ At(s, k + 1) = " "
                    /\ \E j \in 0..(k - 1) : At(s, j) # " "})

parse_option_line(line) ==
    LET
        \* lists.rs
        split_option(t, pos) ==
            IF pos # None
            THEN [option |-> trim(Slice(t, 0, pos)), description |-> trim(SliceFrom(t, pos))]
            ELSE [option |-> t, description |-> <<>>]
        option_parts(t) == split_option(t, find_description_start(t))
    IN
    option_parts(trim(line))

option_entry(option, desc) ==
    <<"<", "d", "t", ">", "<", "c", "o", "d", "e", ">">> \o escape_html(option) \o <<"<", "/", "c", "o", "d", "e", ">", "<", "/", "d", "t", ">", "\n", "<", "d", "d", ">">>
    \o process_inline(trim(desc)) \o <<"<", "/", "d", "d", ">", "\n">>

RECURSIVE option_list_loop(_, _, _, _)
option_list_loop(ls, current_option, current_desc, out) ==
    LET
        \* The entry of the option being collected, if there is one.
        flush_option ==
            IF Len(current_option) > 0 THEN out \o option_entry(current_option, current_desc)
            ELSE out
        option_list_start(rest, p, flushed) ==
            option_list_loop(rest, p.option, p.description, flushed)
        option_list_at(t) ==
            IF Len(t) = 0 THEN option_list_loop(Tail(ls), current_option, current_desc, out)
            ELSE IF is_option_line(t)
            THEN option_list_start(Tail(ls), parse_option_line(t),
                                   flush_option)
            ELSE option_list_loop(Tail(ls), current_option,
                    (IF Len(current_desc) > 0 THEN current_desc \o <<" ">> ELSE current_desc)
                    \o t, out)
    IN
    IF Len(ls) = 0 THEN flush_option
    ELSE option_list_at(trim(ls[1]))

\* lists.rs, as called by second_pass: add_data_line = false.
convert_option_list(text) ==
    option_list_loop(str_lines(text), <<>>, <<>>, <<"<", "d", "l", " ", "c", "l", "a", "s", "s", "=", "\"", "o", "p", "t", "i", "o", "n", "-", "l", "i", "s", "t", "\"", ">", "\n">>)
    \o <<"<", "/", "d", "l", ">">>

\* The end position collect_paragraph returns and the lines it keeps.
RECURSIVE paragraph_loop(_, _, _, _)
paragraph_loop(ls, start, k, para_lines) ==
    LET
        \* A line that ends a paragraph already begun.
        interrupts_paragraph(trimmed) ==
            \/ starts_with(trimmed, <<".", ".", " ">>)
            \/ starts_with(trimmed, <<"-", " ">>)
            \/ starts_with(trimmed, <<"*", " ">>)
            \/ is_enumerated_item(trimmed)
            \/ is_simple_table_border(trimmed)
            \/ (starts_with(trimmed, <<"+">>) /\ contains(trimmed, <<"-">>))
        paragraph_at(trimmed) ==
            IF Len(trimmed) = 0 THEN [para_lines |-> para_lines, end |-> k]
            ELSE IF indent_of(ls[k + 1]) > 0 /\ Len(para_lines) > 0
                 THEN [para_lines |-> para_lines, end |-> k]
            ELSE IF Len(para_lines) > 0 /\ interrupts_paragraph(trimmed)
                 THEN [para_lines |-> para_lines, end |-> k]
            ELSE IF is_section_adornment(trimmed) /\ Len(para_lines) > 0
                 THEN IF Len(para_lines) = 1
                      THEN [para_lines |-> <<>>, end |-> start]
                      ELSE [para_lines |-> SubSeq(para_lines, 1, Len(para_lines) - 1),
                            end |-> k]
            ELSE paragraph_loop(ls, start, k + 1, Append(para_lines, trimmed))
    IN
    IF k >= Len(ls) THEN [para_lines |-> para_lines, end |-> k]
    ELSE paragraph_at(trim(ls[k + 1]))

collect_paragraph(ls, start) ==
    LET
        joined_paragraph(r) == [para |-> join(r.para_lines, <<" ">>), end |-> r.end]
    IN
    joined_paragraph(paragraph_loop(ls, start, start, <<>>))

(***************************************************************************)
(* Nested renders: lists, directives                                       *)
(***************************************************************************)
RECURSIVE convert_rst_content(_)

RECURSIVE Dispatch(_, _, _, _)

\* directives.rs
render_directive_content(content) == convert_rst_content(content)

to_uppercase_char(c) ==
    IF c \in LowerLetters
    THEN UpperSeq[CHOOSE k \in 1..26 : LowerSeq[k] = c]
    ELSE c

\* directives.rs
capitalize_first(s) ==
    IF Len(s) = 0 THEN <<>> ELSE <<to_uppercase_char(s[1])>> \o Tail(s)

Admonitions ==
    {<<"n", "o", "t", "e">>, <<"w", "a", "r", "n", "i", "n", "g">>, <<"t", "i", "p">>, <<"c", "a", "u", "t", "i", "o", "n">>, <<"d", "a", "n", "g", "e", "r">>, <<"a", "t", "t", "e", "n", "t", "i", "o", "n">>, <<"e", "r", "r", "o", "r">>,
     <<"h", "i", "n", "t">>, <<"i", "m", "p", "o", "r", "t", "a", "n", "t">>}

\* Directive names whose renderer is outside this model; none of them gives
\* its body to render_directive_content.
UnmodelledDirectives == {<<"c", "s", "v", "-", "t", "a", "b", "l", "e">>, <<"l", "i", "s", "t", "-", "t", "a", "b", "l", "e">>, <<"g", "l", "o", "s", "s", "a", "r", "y">>, <<"p", "r", "o", "d", "u", "c", "t", "i", "o", "n", "l", "i", "s", "t">>}

\* directives.rs
render_code_block(info) ==
    LET
        code_block_html(lang) ==
            (IF map_has(info.options, <<"c", "a", "p", "t", "i", "o", "n">>)
             THEN <<"<", "d", "i", "v", " ", "c", "l", "a", "s", "s", "=", "\"", "c", "o", "d", "e", "-", "b", "l", "o", "c", "k", "-", "c", "a", "p", "t", "i", "o", "n", "\"", ">">>
                  \o escape_html(map_get(info.options, <<"c", "a", "p", "t", "i", "o", "n">>)) \o <<"<", "/", "d", "i", "v", ">">>
             ELSE <<>>)
            \o <<"<", "p", "r", "e", " ", "c", "l", "a", "s", "s", "=", "\"", "c", "o", "d", "e", "-", "b", "l", "o", "c", "k">>
            \o (IF map_has(info.options, <<"l", "i", "n", "e", "n", "o", "s">>) THEN <<" ", "l", "i", "n", "e", "n", "o", "s">> ELSE <<>>)
            \o <<"\"", ">", "<", "c", "o", "d", "e">>
            \o (IF Len(lang) > 0 THEN <<" ", "c", "l", "a", "s", "s", "=", "\"", "l", "a", "n", "g", "u", "a", "g", "e", "-">> \o escape_html(lang) \o <<"\"">>
                ELSE <<>>)
            \o <<">">> \o escape_html(trim_end(dedent(info.content))) \o <<"<", "/", "c", "o", "d", "e", ">", "<", "/", "p", "r", "e", ">">>
    IN
    code_block_html(trim(info.arguments))

\* directives.rs
render_admonition(info) ==
    concat(<<<<"<", "d", "i", "v", " ", "c", "l", "a", "s", "s", "=", "\"", "a", "d", "m", "o", "n", "i", "t", "i", "o", "n", " ">> \o info.name
             \o <<"\"", ">", "\n", "<", "p", " ", "c", "l", "a", "s", "s", "=", "\"", "a", "d", "m", "o", "n", "i", "t", "i", "o", "n", "-", "t", "i", "t", "l", "e", "\"", ">">> \o capitalize_first(info.name)
             \o <<"<", "/", "p", ">", "\n">>,
             render_directive_content(info.content), <<"\n", "<", "/", "d", "i", "v", ">">>>>)

\* directives.rs
render_generic_admonition(info) ==
    concat(<<<<"<", "d", "i", "v", " ", "c", "l", "a", "s", "s", "=", "\"", "a", "d", "m", "o", "n", "i", "t", "i", "o", "n", "\"", ">", "\n", "<", "p", " ", "c", "l", "a", "s", "s", "=", "\"", "a", "d", "m", "o", "n", "i", "t", "i", "o", "n", "-", "t", "i", "t", "l", "e", "\"", ">">>
             \o escape_html(trim(info.arguments)) \o <<"<", "/", "p", ">", "\n">>,
             render_directive_content(info.content), <<"\n", "<", "/", "d", "i", "v", ">">>>>)

\* directives.rs
render_seealso(info) ==
    concat(<<<<"<", "d", "i", "v", " ", "c", "l", "a", "s", "s", "=", "\"", "a", "d", "m", "o", "n", "i", "t", "i", "o", "n", " ", "s", "e", "e", "a", "l", "s", "o", "\"", ">", "\n", "<", "p", " ", "c", "l", "a", "s", "s", "=", "\"", "a", "d", "m", "o", "n", "i", "t", "i", "o", "n", "-", "t", "i", "t", "l", "e", "\"", ">", "S", "e", "e", " ", "A", "l", "s", "o", "<", "/", "p", ">", "\n">>,
             render_directive_content(info.content), <<"\n", "<", "/", "d", "i", "v", ">">>>>)

\* directives.rs
render_topic(info) ==
    concat(<<<<"<", "d", "i", "v", " ", "c", "l", "a", "s", "s", "=", "\"", "t", "o", "p", "i", "c", "\"", ">", "\n", "<", "p", " ", "c", "l", "a", "s", "s", "=", "\"", "t", "o", "p", "i", "c", "-", "t", "i", "t", "l", "e", "\"", ">">>
             \o escape_html(trim(info.arguments)) \o <<"<", "/", "p", ">", "\n">>,
             render_directive_content(info.content), <<"\n", "<", "/", "d", "i", "v", ">">>>>)

\* directives.rs
render_blockquote(info) ==
    concat(<<<<"<", "b", "l", "o", "c", "k", "q", "u", "o", "t", "e", " ", "c", "l", "a", "s", "s", "=", "\"">> \o info.name \o <<"\"", ">", "\n">>,
             render_directive_content(info.content), <<"\n", "<", "/", "b", "l", "o", "c", "k", "q", "u", "o", "t", "e", ">">>>>)

\* directives.rs
render_compound(info) ==
    concat(<<<<"<", "d", "i", "v", " ", "c", "l", "a", "s", "s", "=", "\"", "c", "o", "m", "p", "o", "u", "n", "d", "\"", ">", "\n">>,
             render_directive_content(info.content), <<"\n", "<", "/", "d", "i", "v", ">">>>>)

\* directives.rs
render_container(info) ==
    concat(<<<<"<", "d", "i", "v", " ", "c", "l", "a", "s", "s", "=", "\"">> \o escape_html(trim(info.arguments)) \o <<"\"", ">", "\n">>,
             render_directive_content(info.content), <<"\n", "<", "/", "d", "i", "v", ">">>>>)

\* "  ".repeat(n)
RECURSIVE repeat_indent(_)
repeat_indent(n) == IF n <= 0 THEN <<>> ELSE <<" ", " ">> \o repeat_indent(n - 1)

RECURSIVE toc_entries(_)
toc_entries(titles) ==
    IF Len(titles) = 0 THEN <<>>
    ELSE (IF titles[1][1] > 1
          THEN repeat_indent(titles[1][1] - 2) \o <<"<", "l", "i", ">", "<", "a", " ", "h", "r", "e", "f", "=", "\"", "#">>
               \o slugify(titles[1][2]) \o <<"\"", ">">> \o escape_html(titles[1][2])
               \o <<"<", "/", "a", ">", "<", "/", "l", "i", ">", "\n">>
          ELSE <<>>)
         \o toc_entries(Tail(titles))

\* directives.rs
render_contents(info, st) ==
    <<"<", "d", "i", "v", " ", "c", "l", "a", "s", "s", "=", "\"", "c", "o", "n", "t", "e", "n", "t", "s", "\"", ">", "\n", "<", "p", " ", "c", "l", "a", "s", "s", "=", "\"", "t", "o", "p", "i", "c", "-", "t", "i", "t", "l", "e", "\"", ">">>
    \o escape_html(IF Len(info.arguments) > 0 THEN trim(info.arguments) ELSE <<"C", "o", "n", "t", "e", "n", "t", "s">>)
    \o <<"<", "/", "p", ">", "\n">>
    \o (IF Len(st.section_titles) > 0
        THEN <<"<", "u", "l", " ", "c", "l", "a", "s", "s", "=", "\"", "t", "o", "c", "\"", ">", "\n">> \o toc_entries(st.section_titles) \o <<"<", "/", "u", "l", ">", "\n">>
        ELSE <<>>)
    \o <<"<", "/", "d", "i", "v", ">">>

RECURSIVE target_note_entries(_)
target_note_entries(refs) ==
    IF Len(refs) = 0 THEN <<>>
    ELSE <<"<", "l", "i", ">", "<", "a", " ", "h", "r", "e", "f", "=", "\"">> \o escape_html(refs[1][2]) \o <<"\"", ">">>
         \o escape_html(refs[1][1]) \o <<"<", "/", "a", ">", "<", "/", "l", "i", ">", "\n">>
         \o target_note_entries(Tail(refs))

\* directives.rs
render_target_notes(st) ==
    IF Len(st.target_references) = 0 THEN <<>>
    ELSE <<"<", "d", "i", "v", " ", "c", "l", "a", "s", "s", "=", "\"", "t", "a", "r", "g", "e", "t", "-", "n", "o", "t", "e", "s", "\"", ">", "\n", "<", "o", "l", ">", "\n">>
         \o target_note_entries(st.target_references) \o <<"<", "/", "o", "l", ">", "\n", "<", "/", "d", "i", "v", ">">>

\* directives.rs
render_unknown(info) ==
    concat(<<<<"<", "d", "i", "v", " ", "c", "l", "a", "s", "s", "=", "\"", "d", "i", "r", "e", "c", "t", "i", "v", "e", "-">> \o escape_html(info.name) \o <<"\"", ">", "\n">>
             \o (IF Len(info.arguments) > 0
                 THEN <<"<", "d", "i", "v", " ", "c", "l", "a", "s", "s", "=", "\"", "d", "i", "r", "e", "c", "t", "i", "v", "e", "-", "a", "r", "g", "u", "m", "e", "n", "t", "s", "\"", ">">>
                      \o escape_html(trim(info.arguments)) \o <<"<", "/", "d", "i", "v", ">", "\n">>
                 ELSE <<>>),
             IF Len(info.content) > 0
             THEN concat(<<<<"<", "d", "i", "v", " ", "c", "l", "a", "s", "s", "=", "\"", "d", "i", "r", "e", "c", "t", "i", "v", "e", "-", "c", "o", "n", "t", "e", "n", "t", "\"", ">">>,
                           render_directive_content(info.content), <<"<", "/", "d", "i", "v", ">", "\n">>>>)
             ELSE <<>>,
             <<"<", "/", "d", "i", "v", ">">>>>)

\* "key: value;" for an option the directive has.
option_style(info, key) ==
    IF map_has(info.options, key)
    THEN key \o <<":", " ">> \o map_get(info.options, key) \o <<";">>
    ELSE <<>>

\* The attributes of the <img> of an image or a figure, style being the text
\* of its style attribute.
img_attrs(info, style) ==
    <<"s", "r", "c", "=", "\"">> \o escape_html(trim(info.arguments)) \o <<"\"">>
    \o (IF map_has(info.options, <<"a", "l", "t">>)
        THEN <<" ", "a", "l", "t", "=", "\"">> \o escape_html(map_get(info.options, <<"a", "l", "t">>)) \o <<"\"">>
        ELSE <<>>)
    \o (IF Len(style) > 0 THEN <<" ", "s", "t", "y", "l", "e", "=", "\"">> \o style \o <<"\"">> ELSE <<>>)

\* directives.rs
render_image(info) ==
    (IF map_has(info.options, <<"t", "a", "r", "g", "e", "t">>)
     THEN <<"<", "a", " ", "h", "r", "e", "f", "=", "\"">> \o escape_html(map_get(info.options, <<"t", "a", "r", "g", "e", "t">>)) \o <<"\"", ">">>
     ELSE <<>>)
    \o <<"<", "i", "m", "g", " ">>
    \o img_attrs(info, option_style(info, <<"w", "i", "d", "t", "h">>) \o option_style(info, <<"h", "e", "i", "g", "h", "t">>))
    \o <<">">>
    \o (IF map_has(info.options, <<"t", "a", "r", "g", "e", "t">>) THEN <<"<", "/", "a", ">">> ELSE <<>>)

\* The caption and the legend of a figure; parts is its trimmed body split at
\* the first blank line.
figure_caption(parts) ==
    concat(<<<<"<", "f", "i", "g", "c", "a", "p", "t", "i", "o", "n", ">">> \o process_inline(parts[1]) \o <<"<", "/", "f", "i", "g", "c", "a", "p", "t", "i", "o", "n", ">", "\n">>>>
           \o (IF Len(parts) > 1
               THEN <<<<"<", "d", "i", "v", " ", "c", "l", "a", "s", "s", "=", "\"", "l", "e", "g", "e", "n", "d", "\"", ">">>, render_directive_content(parts[2]),
                      <<"<", "/", "d", "i", "v", ">", "\n">>>>
               ELSE <<>>))

\* directives.rs
render_figure(info) ==
    concat(<<<<"<", "f", "i", "g", "u", "r", "e", " ", "c", "l", "a", "s", "s", "=", "\"", "f", "i", "g", "u", "r", "e">>
             \o (IF map_has(info.options, <<"f", "i", "g", "c", "l", "a", "s", "s">>)
                 THEN <<" ">> \o map_get(info.options, <<"f", "i", "g", "c", "l", "a", "s", "s">>) ELSE <<>>)
             \o (IF map_has(info.options, <<"a", "l", "i", "g", "n">>)
                 THEN <<" ", "a", "l", "i", "g", "n", "-">> \o map_get(info.options, <<"a", "l", "i", "g", "n">>) ELSE <<>>)
             \o <<"\"", ">", "\n", "<", "i", "m", "g", " ">> \o img_attrs(info, option_style(info, <<"w", "i", "d", "t", "h">>)) \o <<">", "\n">>,
             IF Len(info.content) > 0
             THEN figure_caption(splitn2(trim(info.content), <<"\n", "\n">>))
             ELSE <<>>,
             <<"<", "/", "f", "i", "g", "u", "r", "e", ">">>>>)

\* directives.rs
render_sidebar(info) ==
    concat(<<<<"<", "a", "s", "i", "d", "e", " ", "c", "l", "a", "s", "s", "=", "\"", "s", "i", "d", "e", "b", "a", "r", "\"", ">", "\n", "<", "p", " ", "c", "l", "a", "s", "s", "=", "\"", "s", "i", "d", "e", "b", "a", "r", "-", "t", "i", "t", "l", "e", "\"", ">">>
             \o escape_html(trim(info.arguments)) \o <<"<", "/", "p", ">", "\n">>
             \o (IF map_has(info.options, <<"s", "u", "b", "t", "i", "t", "l", "e">>)
                 THEN <<"<", "p", " ", "c", "l", "a", "s", "s", "=", "\"", "s", "i", "d", "e", "b", "a", "r", "-", "s", "u", "b", "t", "i", "t", "l", "e", "\"", ">">>
                      \o escape_html(map_get(info.options, <<"s", "u", "b", "t", "i", "t", "l", "e">>)) \o <<"<", "/", "p", ">", "\n">>
                 ELSE <<>>),
             render_directive_content(info.content), <<"\n", "<", "/", "a", "s", "i", "d", "e", ">">>>>)

\* tables.rs
is_simple_border(line) ==
    /\ Len(line) > 0
    /\ \A k \in 1..Len(line) : line[k] \in {"=", " "}
    /\ contains(line, <<"=">>)

\* tables.rs
is_simple_table(text) ==
    /\ Len(str_lines(text)) >= 3
    /\ is_simple_border(trim(str_lines(text)[1]))
    /\ is_simple_border(trim(str_lines(text)[Len(str_lines(text))]))

\* directives.rs
render_table_directive(info) ==
    IF (Len(info.content) > 0 /\ is_simple_table(trim(info.content)))
       \/ Len(trim(info.arguments)) > 0
    THEN <<"<", "t", "a", "b", "l", "e", ">", "\n", "<", "c", "a", "p", "t", "i", "o", "n", ">">> \o escape_html(trim(info.arguments)) \o <<"<", "/", "c", "a", "p", "t", "i", "o", "n", ">", "\n", "<", "/", "t", "a", "b", "l", "e", ">">>
    ELSE <<"<", "t", "a", "b", "l", "e", ">", "\n", "<", "/", "t", "a", "b", "l", "e", ">">>

\* directives.rs
render_raw(info) ==
    IF trim(info.arguments) = <<"h", "t", "m", "l">> THEN info.content
    ELSE <<"<", "!", "-", "-", " ">> \o capitalize_first(trim(info.arguments)) \o <<":", " ">>
         \o escape_html(info.content) \o <<" ", "-", "-", ">">>

\* directives.rs
render_include(info) ==
    <<"<", "p", " ", "c", "l", "a", "s", "s", "=", "\"", "i", "n", "c", "l", "u", "d", "e", "\"", ">", "I", "n", "c", "l", "u", "d", "e", ":", " ">> \o escape_html(trim(info.arguments)) \o <<"<", "/", "p", ">">>

\* directives.rs
render_class(info) ==
    concat(<<<<"<", "d", "i", "v", " ", "c", "l", "a", "s", "s", "=", "\"">> \o escape_html(trim(info.arguments)) \o <<"\"", ">", "\n">>,
             render_directive_content(info.content), <<"\n", "<", "/", "d", "i", "v", ">">>>>)

\* directives.rs
render_meta(info) == <<"<", "!", "-", "-", " ", "m", "e", "t", "a", ":", " ">> \o escape_html(info.content) \o <<" ", "-", "-", ">">>

\* directives.rs
render_math(info) ==
    (IF map_has(info.options, <<"l", "a", "b", "e", "l">>)
     THEN <<"<", "d", "i", "v", " ", "c", "l", "a", "s", "s", "=", "\"", "m", "a", "t", "h", "-", "b", "l", "o", "c", "k", "\"", " ", "i", "d", "=", "\"", "e", "q", "u", "a", "t", "i", "o", "n", "-">>
          \o escape_html(map_get(info.options, <<"l", "a", "b", "e", "l">>)) \o <<"\"", ">", "\n">>
     ELSE <<"<", "d", "i", "v", " ", "c", "l", "a", "s", "s", "=", "\"", "m", "a", "t", "h", "-", "b", "l", "o", "c", "k", "\"", ">", "\n">>)
    \o escape_html(trim(info.content)) \o <<"\n", "<", "/", "d", "i", "v", ">">>

\* The entry of a toctree for one line of its body.
toctree_entry(trimmed) ==
    IF Len(trimmed) > 0 /\ ~starts_with(trimmed, <<":">>)
    THEN <<"<", "l", "i", ">", "<", "a", " ", "h", "r", "e", "f", "=", "\"">> \o escape_html(trimmed) \o <<".", "h", "t", "m", "l", "\"", ">">> \o escape_html(trimmed)
         \o <<"<", "/", "a", ">", "<", "/", "l", "i", ">", "\n">>
    ELSE <<>>

toctree_entries(ls) == flatten([k \in 1..Len(ls) |-> toctree_entry(trim(ls[k]))])

\* directives.rs
render_toctree(info) ==
    <<"<", "n", "a", "v", " ", "c", "l", "a", "s", "s", "=", "\"", "t", "o", "c", "t", "r", "e", "e", "-", "w", "r", "a", "p", "p", "e", "r", "\"", ">", "\n">>
    \o (IF map_has(info.options, <<"c", "a", "p", "t", "i", "o", "n">>)
        THEN <<"<", "p", " ", "c", "l", "a", "s", "s", "=", "\"", "c", "a", "p", "t", "i", "o", "n", "\"", ">">> \o escape_html(map_get(info.options, <<"c", "a", "p", "t", "i", "o", "n">>))
             \o <<"<", "/", "p", ">", "\n">>
        ELSE <<>>)
    \o <<"<", "u", "l", ">", "\n">> \o toctree_entries(str_lines(info.content)) \o <<"<", "/", "u", "l", ">", "\n", "<", "/", "n", "a", "v", ">">>

\* directives.rs
render_version(info, prefix) ==
    concat(<<<<"<", "d", "i", "v", " ", "c", "l", "a", "s", "s", "=", "\"">> \o info.name \o <<"\"", ">", "\n", "<", "s", "p", "a", "n", " ", "c", "l", "a", "s", "s", "=", "\"", "v", "e", "r", "s", "i", "o", "n", "m", "o", "d", "i", "f", "i", "e", "d", "\"", ">">>
             \o prefix \o <<" ">> \o escape_html(trim(info.arguments)) \o <<":", " ", "<", "/", "s", "p", "a", "n", ">">>,
             render_directive_content(info.content), <<"\n", "<", "/", "d", "i", "v", ">">>>>)

\* directives.rs
render_deprecated(info) ==
    concat(<<<<"<", "d", "i", "v", " ", "c", "l", "a", "s", "s", "=", "\"", "d", "e", "p", "r", "e", "c", "a", "t", "e", "d", "\"", ">", "\n", "<", "s", "p", "a", "n", " ", "c", "l", "a", "s", "s", "=", "\"", "v", "e", "r", "s", "i", "o", "n", "m", "o", "d", "i", "f", "i", "e", "d", "\"", ">", "D", "e", "p", "r", "e", "c", "a", "t", "e", "d", " ", "s", "i", "n", "c", "e", " ", "v", "e", "r", "s", "i", "o", "n", " ">>
             \o escape_html(trim(info.arguments)) \o <<":", " ", "<", "/", "s", "p", "a", "n", ">">>,
             render_directive_content(info.content), <<"\n", "<", "/", "d", "i", "v", ">">>>>)

\* directives.rs
render_doctest(info) ==
    IF Len(trim(info.arguments)) > 0 THEN <<>>
    ELSE <<"<", "p", "r", "e", " ", "c", "l", "a", "s", "s", "=", "\"", "d", "o", "c", "t", "e", "s", "t", "\"", ">", "<", "c", "o", "d", "e", " ", "c", "l", "a", "s", "s", "=", "\"", "l", "a", "n", "g", "u", "a", "g", "e", "-", "p", "y", "t", "h", "o", "n", "\"", ">">>
         \o escape_html(trim(dedent(info.content))) \o <<"<", "/", "c", "o", "d", "e", ">", "<", "/", "p", "r", "e", ">">>

\* directives.rs
render_testcode(info) ==
    <<"<", "p", "r", "e", " ", "c", "l", "a", "s", "s", "=", "\"", "t", "e", "s", "t", "c", "o", "d", "e", "\"", ">", "<", "c", "o", "d", "e", ">">> \o escape_html(trim(dedent(info.content)))
    \o <<"<", "/", "c", "o", "d", "e", ">", "<", "/", "p", "r", "e", ">">>

\* directives.rs
render_testoutput(info) ==
    <<"<", "p", "r", "e", " ", "c", "l", "a", "s", "s", "=", "\"", "t", "e", "s", "t", "o", "u", "t", "p", "u", "t", "\"", ">", "<", "s", "a", "m", "p", ">">> \o escape_html(trim(dedent(info.content)))
    \o <<"<", "/", "s", "a", "m", "p", ">", "<", "/", "p", "r", "e", ">">>

\* The text a token of the arguments of a unicode directive stands for: the
\* character of a code point, nothing for a number that is no character, and
\* the token itself when it is no number.
unicode_part(part) ==
    IF starts_with(part, <<"0", "x">>) \/ starts_with(part, <<"0", "X">>) \/ parses_u32(part)
    THEN unicode_token(part)
    ELSE part

unicode_parts(parts) == flatten([k \in 1..Len(parts) |-> unicode_part(parts[k])])

\* directives.rs
render_unicode(info) == unicode_parts(split_whitespace(info.arguments))

\* directives.rs
render_date(info) ==
    format_now(IF Len(trim(info.arguments)) = 0 THEN <<"%", "Y", "-", "%", "m", "-", "%", "d">> ELSE trim(info.arguments))

\* The directives whose renderer gives the whole body to
\* render_directive_content, and the directives render_directive knows whose
\* renderer gives it nothing.
BodyDirectives ==
    Admonitions
    \cup {<<"a", "d", "m", "o", "n", "i", "t", "i", "o", "n">>, <<"s", "e", "e", "a", "l", "s", "o">>, <<"t", "o", "p", "i", "c">>, <<"s", "i", "d", "e", "b", "a", "r">>, <<"e", "p", "i", "g", "r", "a", "p", "h">>, <<"h", "i", "g", "h", "l", "i", "g", "h", "t", "s">>,
          <<"p", "u", "l", "l", "-", "q", "u", "o", "t", "e">>, <<"c", "o", "m", "p", "o", "u", "n", "d">>, <<"c", "o", "n", "t", "a", "i", "n", "e", "r">>, <<"c", "l", "a", "s", "s">>, <<"v", "e", "r", "s", "i", "o", "n", "a", "d", "d", "e", "d">>,
          <<"v", "e", "r", "s", "i", "o", "n", "c", "h", "a", "n", "g", "e", "d">>, <<"d", "e", "p", "r", "e", "c", "a", "t", "e", "d">>}

LeafDirectives ==
    {<<"c", "o", "d", "e", "-", "b", "l", "o", "c", "k">>, <<"c", "o", "d", "e">>, <<"s", "o", "u", "r", "c", "e", "c", "o", "d", "e">>, <<"h", "i", "g", "h", "l", "i", "g", "h", "t">>, <<"p", "a", "r", "s", "e", "d", "-", "l", "i", "t", "e", "r", "a", "l">>, <<"i", "m", "a", "g", "e">>,
     <<"r", "u", "b", "r", "i", "c">>, <<"c", "e", "n", "t", "e", "r", "e", "d">>, <<"c", "o", "n", "t", "e", "n", "t", "s">>, <<"t", "a", "b", "l", "e">>, <<"c", "s", "v", "-", "t", "a", "b", "l", "e">>, <<"l", "i", "s", "t", "-", "t", "a", "b", "l", "e">>, <<"r", "a", "w">>,
     <<"i", "n", "c", "l", "u", "d", "e">>, <<"m", "e", "t", "a">>, <<"m", "a", "t", "h">>, <<"t", "o", "c", "t", "r", "e", "e">>, <<"g", "l", "o", "s", "s", "a", "r", "y">>, <<"p", "r", "o", "d", "u", "c", "t", "i", "o", "n", "l", "i", "s", "t">>,
     <<"d", "o", "c", "t", "e", "s", "t">>, <<"t", "e", "s", "t", "c", "o", "d", "e">>, <<"t", "e", "s", "t", "o", "u", "t", "p", "u", "t">>, <<"u", "n", "i", "c", "o", "d", "e">>, <<"d", "a", "t", "e">>, <<"r", "e", "p", "l", "a", "c", "e">>, <<"r", "o", "l", "e">>,
     <<"s", "e", "c", "t", "n", "u", "m">>, <<"h", "e", "a", "d", "e", "r">>, <<"f", "o", "o", "t", "e", "r">>, <<"t", "a", "r", "g", "e", "t", "-", "n", "o", "t", "e", "s">>}

\* render_directive: the texts it gives to render_directive_content.  A
\* figure gives the legend, the part of its trimmed body behind the first
\* blank line; an unknown directive gives its body unless it is empty.
directive_content_rst(info) ==
    IF info.name \in BodyDirectives THEN <<info.content>>
    ELSE IF info.name = <<"f", "i", "g", "u", "r", "e">>
    THEN (IF Len(info.content) > 0 /\ Len(splitn2(trim(info.content), <<"\n", "\n">>)) > 1
          THEN <<splitn2(trim(info.content), <<"\n", "\n">>)[2]>>
          ELSE <<>>)
    ELSE IF info.name \in LeafDirectives THEN <<>>
    ELSE IF Len(info.content) > 0 THEN <<info.content>>
    ELSE <<>>

\* directives.rs
render_directive(info, st) ==
    CASE info.name \in {<<"c", "o", "d", "e", "-", "b", "l", "o", "c", "k">>, <<"c", "o", "d", "e">>, <<"s", "o", "u", "r", "c", "e", "c", "o", "d", "e">>, <<"h", "i", "g", "h", "l", "i", "g", "h", "t">>} ->
           render_code_block(info)
      [] info.name = <<"p", "a", "r", "s", "e", "d", "-", "l", "i", "t", "e", "r", "a", "l">> ->
           <<"<", "p", "r", "e", " ", "c", "l", "a", "s", "s", "=", "\"", "p", "a", "r", "s", "e", "d", "-", "l", "i", "t", "e", "r", "a", "l", "\"", ">">> \o process_inline(info.content) \o <<"<", "/", "p", "r", "e", ">">>
      [] info.name \in Admonitions -> render_admonition(info)
      [] info.name = <<"a", "d", "m", "o", "n", "i", "t", "i", "o", "n">> -> render_generic_admonition(info)
      [] info.name = <<"s", "e", "e", "a", "l", "s", "o">> -> render_seealso(info)
      [] info.name = <<"t", "o", "p", "i", "c">> -> render_topic(info)
      [] info.name = <<"r", "u", "b", "r", "i", "c">> ->
           <<"<", "p", " ", "c", "l", "a", "s", "s", "=", "\"", "r", "u", "b", "r", "i", "c", "\"", ">">> \o process_inline(trim(info.arguments)) \o <<"<", "/", "p", ">">>
      [] info.name = <<"c", "e", "n", "t", "e", "r", "e", "d">> ->
           <<"<", "p", " ", "c", "l", "a", "s", "s", "=", "\"", "c", "e", "n", "t", "e", "r", "e", "d", "\"", " ", "s", "t", "y", "l", "e", "=", "\"", "t", "e", "x", "t", "-", "a", "l", "i", "g", "n", ":", " ", "c", "e", "n", "t", "e", "r", "\"", ">">>
           \o process_inline(trim(info.arguments)) \o <<"<", "/", "p", ">">>
      [] info.name \in {<<"e", "p", "i", "g", "r", "a", "p", "h">>, <<"h", "i", "g", "h", "l", "i", "g", "h", "t", "s">>, <<"p", "u", "l", "l", "-", "q", "u", "o", "t", "e">>} ->
           render_blockquote(info)
      [] info.name = <<"c", "o", "m", "p", "o", "u", "n", "d">> -> render_compound(info)
      [] info.name = <<"c", "o", "n", "t", "a", "i", "n", "e", "r">> -> render_container(info)
      [] info.name = <<"c", "o", "n", "t", "e", "n", "t", "s">> -> render_contents(info, st)
      [] info.name = <<"r", "e", "p", "l", "a", "c", "e">> -> process_inline(trim(info.arguments))
      [] info.name \in {<<"r", "o", "l", "e">>, <<"s", "e", "c", "t", "n", "u", "m">>, <<"h", "e", "a", "d", "e", "r">>, <<"f", "o", "o", "t", "e", "r">>} -> <<>>
      [] info.name = <<"t", "a", "r", "g", "e", "t", "-", "n", "o", "t", "e", "s">> -> render_target_notes(st)
      [] info.name = <<"i", "m", "a", "g", "e">> -> render_image(info)
      [] info.name = <<"f", "i", "g", "u", "r", "e">> -> render_figure(info)
      [] info.name = <<"s", "i", "d", "e", "b", "a", "r">> -> render_sidebar(info)
      [] info.name = <<"t", "a", "b", "l", "e">> -> render_table_directive(info)
      [] info.name = <<"r", "a", "w">> -> render_raw(info)
      [] info.name = <<"i", "n", "c", "l", "u", "d", "e">> -> render_include(info)
      [] info.name = <<"c", "l", "a", "s", "s">> -> render_class(info)
      [] info.name = <<"m", "e", "t", "a">> -> render_meta(info)
      [] info.name = <<"m", "a", "t", "h">> -> render_math(info)
      [] info.name = <<"t", "o", "c", "t", "r", "e", "e">> -> render_toctree(info)
      [] info.name = <<"v", "e", "r", "s", "i", "o", "n", "a", "d", "d", "e", "d">> -> render_version(info, <<"N", "e", "w", " ", "i", "n", " ", "v", "e", "r", "s", "i", "o", "n">>)
      [] info.name = <<"v", "e", "r", "s", "i", "o", "n", "c", "h", "a", "n", "g", "e", "d">> -> render_version(info, <<"C", "h", "a", "n", "g", "e", "d", " ", "i", "n", " ", "v", "e", "r", "s", "i", "o", "n">>)
      [] info.name = <<"d", "e", "p", "r", "e", "c", "a", "t", "e", "d">> -> render_deprecated(info)
      [] info.name = <<"d", "o", "c", "t", "e", "s", "t">> -> render_doctest(info)
      [] info.name = <<"t", "e", "s", "t", "c", "o", "d", "e">> -> render_testcode(info)
      [] info.name = <<"t", "e", "s", "t", "o", "u", "t", "p", "u", "t">> -> render_testoutput(info)
      [] info.name = <<"u", "n", "i", "c", "o", "d", "e">> -> render_unicode(info)
      [] info.name = <<"d", "a", "t", "e">> -> render_date(info)
      [] info.name \in UnmodelledDirectives -> <<UnmodelledMark>>
      [] OTHER -> render_unknown(info)

nested_bullet_rst(nested_text) ==
    LET
        \* lines().map(|l| l.trim_start_matches("_NESTED_BULLET_")) joined by "\n"
        strip_nested_marks(ls) ==
            join([k \in 1..Len(ls) |-> trim_start_matches(ls[k], <<"_", "N", "E", "S", "T", "E", "D", "_", "B", "U", "L", "L", "E", "T", "_">>)], <<"\n">>)
    IN
    strip_nested_marks(str_lines(nested_text))

\* The second part of splitn(2, ..), or "" when there is none.
second_part(parts) == IF Len(parts) > 1 THEN parts[2] ELSE <<>>

\* render_list_item_content: the text it gives to convert_rst_content, one
\* text for an item with nested bullets or a nested directive, none for any
\* other item.
nested_item_rst(content) ==
    IF contains(content, <<"_", "N", "E", "S", "T", "E", "D", "_", "B", "U", "L", "L", "E", "T", "_">>)
    THEN <<nested_bullet_rst(second_part(splitn2(content, <<"\n", "_", "N", "E", "S", "T", "E", "D", "_", "B", "U", "L", "L", "E", "T", "_">>)))>>
    ELSE IF contains(content, <<"_", "N", "E", "S", "T", "E", "D", "_", "D", "I", "R", "E", "C", "T", "I", "V", "E", "_">>)
    THEN <<<<".", ".", " ">> \o trim_start_matches(
                        second_part(splitn2(content, <<"\n", "_", "N", "E", "S", "T", "E", "D", "_", "D", "I", "R", "E", "C", "T", "I", "V", "E", "_">>)),
                        <<"_", "N", "E", "S", "T", "E", "D", "_", "D", "I", "R", "E", "C", "T", "I", "V", "E", "_">>)>>
    ELSE <<>>

render_list_item_content(content) ==
    LET
        item_with_nested(main_text, nested) ==
            concat(<<process_inline(trim(main_text)) \o <<"\n">>,
                     convert_rst_content(nested[1])>>)
    IN
    IF contains(content, <<"_", "N", "E", "S", "T", "E", "D", "_", "B", "U", "L", "L", "E", "T", "_">>)
    THEN item_with_nested(splitn2(content, <<"\n", "_", "N", "E", "S", "T", "E", "D", "_", "B", "U", "L", "L", "E", "T", "_">>)[1], nested_item_rst(content))
    ELSE IF contains(content, <<"_", "N", "E", "S", "T", "E", "D", "_", "D", "I", "R", "E", "C", "T", "I", "V", "E", "_">>)
    THEN item_with_nested(splitn2(content, <<"\n", "_", "N", "E", "S", "T", "E", "D", "_", "D", "I", "R", "E", "C", "T", "I", "V", "E", "_">>)[1], nested_item_rst(content))
    ELSE process_inline(trim(content))

\* The html of a list: the opening tag, an <li> for the content of every item
\* up to the first one whose rendering does not return, and the end tag.
list_html(open_tag, contents, end_tag) ==
    concat(<<open_tag>>
           \o [n \in 1..Len(contents) |->
                  concat(<<<<"<", "l", "i", ">">>, render_list_item_content(contents[n]), <<"<", "/", "l", "i", ">", "\n">>>>)]
           \o <<end_tag>>)

\* The loop of convert_bullet_list from offset k: the contents of the items,
\* as collect_list_item_content returns them, and the offset the loop ends at.
RECURSIVE bullet_list_loop(_, _, _)
bullet_list_loop(ls, k, items) ==
    LET
        list_item(item) == bullet_list_loop(ls, item.end, Append(items, item.content))
        bullet_list_at(trimmed) ==
            IF Len(trimmed) = 0
            THEN IF /\ k + 1 < Len(ls)
                    /\ \/ is_bullet(trim(ls[k + 2]))
                       \/ (indent_of(ls[k + 2]) > 0 /\ ~is_blank(ls[k + 2]))
                 THEN bullet_list_loop(ls, k + 1, items)
                 ELSE [items |-> items, end |-> k]
            ELSE IF is_bullet(trimmed)
            THEN list_item(collect_list_item_content(ls, k, strip_bullet_marker(trimmed)))
            ELSE [items |-> items, end |-> k]
    IN
    IF k >= Len(ls) THEN [items |-> items, end |-> k]
    ELSE bullet_list_at(trim(ls[k + 1]))

\* A list that drops its items.
empty_bullet_list(ls, start) == [html |-> <<"<", "u", "l", ">", "\n", "<", "/", "u", "l", ">">>, end |-> start + 1]

convert_bullet_list(ls, start) ==
    LET
        rendered(r) == [html |-> list_html(<<"<", "u", "l", ">", "\n">>, r.items, <<"<", "/", "u", "l", ">">>), end |-> r.end]
    IN
    rendered(bullet_list_loop(ls, start, <<>>))

\* The loop of convert_enumerated_list from offset k.
RECURSIVE enumerated_list_loop(_, _, _)
enumerated_list_loop(ls, k, items) ==
    LET
        list_item(item) == enumerated_list_loop(ls, item.end, Append(items, item.content))
        enumerated_list_at(trimmed) ==
            IF Len(trimmed) = 0
            THEN IF /\ k + 1 < Len(ls)
                    /\ \/ is_enumerated_item(trim(ls[k + 2]))
                       \/ (indent_of(ls[k + 2]) > 0 /\ ~is_blank(ls[k + 2]))
                 THEN enumerated_list_loop(ls, k + 1, items)
                 ELSE [items |-> items, end |-> k]
            ELSE IF is_enumerated_item(trimmed)
            THEN list_item(collect_list_item_content(ls, k, strip_enumerated_marker(trimmed)))
            ELSE IF indent_of(ls[k + 1]) > 0 THEN enumerated_list_loop(ls, k + 1, items)
            ELSE [items |-> items, end |-> k]
    IN
    IF k >= Len(ls) THEN [items |-> items, end |-> k]
    ELSE enumerated_list_at(trim(ls[k + 1]))

convert_enumerated_list(ls, start) ==
    LET
        rendered(r) == [html |-> list_html(<<"<", "o", "l", ">", "\n">>, r.items, <<"<", "/", "o", "l", ">">>), end |-> r.end]
    IN
    rendered(enumerated_list_loop(ls, start, <<>>))

\* The multi-line value of one field: the text and the offset after it.
RECURSIVE field_value_loop(_, _, _)
field_value_loop(ls, j, full_value) ==
    IF j >= Len(ls) THEN [value |-> full_value, j |-> j]
    ELSE IF is_blank(ls[j + 1])
         THEN IF j + 1 < Len(ls) /\ indent_of(ls[j + 2]) > 0 /\ ~is_blank(ls[j + 2])
              THEN field_value_loop(ls, j + 1, full_value \o <<"\n">>)
              ELSE [value |-> full_value, j |-> j]
    ELSE IF indent_of(ls[j + 1]) > 0
         THEN field_value_loop(ls, j + 1, full_value \o <<" ">> \o trim(ls[j + 1]))
    ELSE [value |-> full_value, j |-> j]

\* The loop of convert_field_list from offset k: the name and the value of
\* every field, and the offset the loop ends at.
RECURSIVE field_list_loop(_, _, _)
field_list_loop(ls, k, fields) ==
    LET
        \* One more field: v is what field_value_loop returned.
        field_item(field_name, v) ==
            field_list_loop(ls, v.j, Append(fields, [name |-> field_name, value |-> v.value]))
        field_list_field(trimmed, end_colon) ==
            IF end_colon # None
            THEN field_item(Slice(trimmed, 1, end_colon + 1),
                            field_value_loop(ls, k + 1, trim(SliceFrom(trimmed, end_colon + 2))))
            ELSE [fields |-> fields, end |-> k]
        field_list_at(trimmed) ==
            IF Len(trimmed) = 0
            THEN IF /\ k + 1 < Len(ls)
                    /\ \/ (starts_with(trim(ls[k + 2]), <<":">>)
                           /\ ~starts_with(trim(ls[k + 2]), <<":", ":">>))
                       \/ indent_of(ls[k + 2]) > 0
                 THEN field_list_loop(ls, k + 1, fields)
                 ELSE [fields |-> fields, end |-> k]
            ELSE IF starts_with(trimmed, <<":">>) /\ ~starts_with(trimmed, <<":", ":">>)
            THEN field_list_field(trimmed, second_colon(trimmed))
            ELSE [fields |-> fields, end |-> k]
    IN
    IF k >= Len(ls) THEN [fields |-> fields, end |-> k]
    ELSE field_list_at(trim(ls[k + 1]))

\* convert_field_list: the text it gives to convert_rst_content for a field,
\* none for a field without a value.
field_value_rst(value) == IF Len(value) = 0 THEN <<>> ELSE <<trim(value)>>

convert_field_list(ls, start) ==
    LET
        field_html(field) ==
            concat(<<<<"<", "d", "t", ">">> \o escape_html(field.name) \o <<"<", "/", "d", "t", ">", "\n", "<", "d", "d", ">">>,
                     IF Len(field.value) = 0 THEN <<>>
                     ELSE convert_rst_content(field_value_rst(field.value)[1]),
                     <<"<", "/", "d", "d", ">", "\n">>>>)
        rendered(r) ==
            [html |-> concat(<<<<"<", "d", "l", ">", "\n">>>>
                             \o [n \in 1..Len(r.fields) |-> field_html(r.fields[n])]
                             \o <<<<"<", "/", "d", "l", ">">>>>),
             end |-> r.end]
    IN
    rendered(field_list_loop(ls, start, <<>>))

(***************************************************************************)
(* tables.rs: grid tables                                                  *)
(***************************************************************************)
\* The elements of a set of numbers in ascending order.
RECURSIVE ascending(_)
ascending(S) ==
    IF S = {} THEN <<>>
    ELSE <<CHOOSE m \in S : \A n \in S : m <= n>>
         \o ascending(S \ {CHOOSE m \in S : \A n \in S : m <= n})

\* tables.rs
tables_is_grid_border(line) ==
    /\ Len(line) > 0
    /\ starts_with(line, <<"+">>)
    /\ ends_with(line, <<"+">>)
    /\ \A k \in 1..Len(line) : line[k] \in {"+", "-", "=", " "}

\* tables.rs: the offsets of the "+" of the border.
parse_grid_columns(border) ==
    ascending({k \in 0..(Len(border) - 1) : At(border, k) = "+"})

\* A span detection that finds no column-span at all.
single_column(border, col_positions, col) == 1

\* detect_spans: the column-span of the cell that starts at column col of a
\* row below the given border line.
grid_colspan(border, col_positions, col) ==
    LET
        num_cols == Len(col_positions) - 1
        \* The columns behind col at whose right boundary the border has a "+".
        closed == {check_col \in (col + 1)..(num_cols - 1) :
                      /\ col_positions[check_col + 2] < Len(border)
                      /\ At(border, col_positions[check_col + 2]) = "+"}
    IN
    IF col_positions[col + 2] < Len(border) /\ At(border, col_positions[col + 2]) # "+"
    THEN IF closed = {} THEN num_cols - col
         ELSE (CHOOSE c \in closed : \A d \in closed : c <= d) - col + 1
    ELSE 1

\* detect_spans: the pieces of the content lines between the offsets
\* cell_start and cell_end.
RECURSIVE grid_cell_lines(_, _, _)
grid_cell_lines(content_lines, cell_start, cell_end) ==
    LET
        piece(line, s, e) ==
            IF s < e THEN <<trim(trim_end_matches(Slice(line, s, e), "|"))>> ELSE <<>>
        clipped(line) ==
            piece(line,
                  IF cell_start < Len(line) THEN cell_start ELSE Len(line),
                  IF cell_end < Len(line) THEN cell_end ELSE Len(line))
    IN
    IF Len(content_lines) = 0 THEN <<>>
    ELSE clipped(content_lines[1])
         \o grid_cell_lines(Tail(content_lines), cell_start, cell_end)

\* detect_spans: the row-span of the cell that starts at column col of a row
\* above the border line next_border.
grid_rowspan(next_border, col_positions, col) ==
    LET
        spans(left_pos, cell_start) ==
            /\ left_pos < Len(next_border)
            /\ At(next_border, left_pos) = "+"
            /\ ~(cell_start < Len(next_border)
                 /\ At(next_border, cell_start) \in {"-", "="})
    IN
    IF spans(col_positions[col + 1], col_positions[col + 1] + 1) THEN 2 ELSE 1

\* A row that holds one cell of one column, whatever the borders say.
one_cell_row(content_lines, border, next_border, col_positions, col) ==
    <<[content |-> <<>>, colspan |-> 1, rowspan |-> 1, skip |-> FALSE]>>

\* detect_spans: the cells of one row from column col on.
RECURSIVE grid_row_cells(_, _, _, _, _)
grid_row_cells(content_lines, border, next_border, col_positions, col) ==
    LET
        cell(span) ==
            [content |-> trim(join(grid_cell_lines(content_lines,
                                       col_positions[col + 1] + 1,
                                       col_positions[col + span + 1]), <<"\n">>)),
             colspan |-> span,
             rowspan |-> grid_rowspan(next_border, col_positions, col),
             skip |-> FALSE]
        from(span) ==
            <<cell(span)>>
            \o grid_row_cells(content_lines, border, next_border, col_positions, col + span)
    IN
    IF col >= Len(col_positions) - 1 THEN <<>>
    ELSE from(grid_colspan(border, col_positions, col))

\* detect_spans: the rows between consecutive borders, from the bi-th border on.
RECURSIVE grid_rows(_, _, _, _)
grid_rows(ls, col_positions, border_indices, bi) ==
    LET
        is_content(line) == starts_with(trim(line), <<"|">>)
        row(content_lines, start, end) ==
            IF Len(content_lines) = 0 THEN <<>>
            ELSE <<grid_row_cells(content_lines, ls[start + 1], ls[end + 1],
                                  col_positions, 0)>>
        between(start, end) ==
            row(SelectSeq(SubSeq(ls, start + 2, end), is_content), start, end)
    IN
    IF bi >= Len(border_indices) - 1 THEN <<>>
    ELSE between(border_indices[bi + 1], border_indices[bi + 2])
         \o grid_rows(ls, col_positions, border_indices, bi + 1)

\* tables.rs
detect_spans(ls, col_positions) ==
    LET
        \* A cell is marked as covered when the cell with the same index in the
        \* row before has a row-span above 1.
        mark_skipped(all_rows) ==
            [r \in 1..Len(all_rows) |->
                [c \in 1..Len(all_rows[r]) |->
                    [all_rows[r][c] EXCEPT
                        !.skip = /\ r > 1
                                 /\ c <= Len(all_rows[r - 1])
                                 /\ all_rows[r - 1][c].rowspan > 1]]]
        rows_between(border_indices) ==
            IF Len(border_indices) < 2 THEN <<>>
            ELSE mark_skipped(grid_rows(ls, col_positions, border_indices, 0))
    IN
    IF Len(col_positions) <= 1 THEN <<>>
    ELSE rows_between(ascending({k \in 0..(Len(ls) - 1) :
                                    tables_is_grid_border(trim(ls[k + 1]))}))

\* tables.rs
process_cell_code_block(content) ==
    LET
        lang_of(first, pos) ==
            IF pos # None THEN trim(SliceFrom(first, pos + 2)) ELSE <<>>
        lang_class(lang) ==
            IF Len(lang) > 0 THEN <<" ", "c", "l", "a", "s", "s", "=", "\"", "l", "a", "n", "g", "u", "a", "g", "e", "-">> \o escape_html(lang) \o <<"\"">>
            ELSE <<>>
        code_lines(rest) ==
            IF \E k \in 1..Len(rest) : ~is_blank(rest[k])
            THEN SubSeq(rest, CHOOSE k \in 1..Len(rest) :
                                 /\ ~is_blank(rest[k])
                                 /\ \A j \in 1..(k - 1) : is_blank(rest[j]),
                        Len(rest))
            ELSE <<>>
        block(ls) ==
            IF Len(ls) = 0 THEN <<>>
            ELSE <<"<", "p", "r", "e", ">", "<", "c", "o", "d", "e">> \o lang_class(lang_of(trim(ls[1]), rfind(trim(ls[1]), <<":", ":">>)))
                 \o <<">">> \o escape_html(dedent(join(code_lines(Tail(ls)), <<"\n">>)))
                 \o <<"<", "/", "c", "o", "d", "e", ">", "<", "/", "p", "r", "e", ">">>
    IN
    block(str_lines(content))

\* tables.rs
process_cell_list(content) ==
    LET
        item(trimmed) ==
            IF starts_with(trimmed, <<"-", " ">>)
            THEN <<"<", "l", "i", ">">> \o process_inline(SliceFrom(trimmed, 2)) \o <<"<", "/", "l", "i", ">">>
            ELSE <<>>
        items(ls) == join([k \in 1..Len(ls) |-> item(trim(ls[k]))], <<>>)
    IN
    <<"<", "u", "l", ">">> \o items(str_lines(content)) \o <<"<", "/", "u", "l", ">">>

\* tables.rs
process_grid_cell_content(content) ==
    LET
        joined(ls) == join([k \in 1..Len(ls) |-> trim(ls[k])], <<" ">>)
        cell_html(trimmed) ==
            IF Len(trimmed) = 0 THEN <<>>
            ELSE IF starts_with(trimmed, <<".", ".", " ", "c", "o", "d", "e", "-", "b", "l", "o", "c", "k", ":", ":">>) \/ starts_with(trimmed, <<".", ".", " ", "c", "o", "d", "e", ":", ":">>)
            THEN process_cell_code_block(trimmed)
            ELSE IF starts_with(trimmed, <<"-", " ">>) THEN process_cell_list(trimmed)
            ELSE process_inline(IF contains(trimmed, <<"\n">>)
                                THEN joined(str_lines(trimmed)) ELSE trimmed)
    IN
    cell_html(trim(content))

\* convert_grid_table: one cell of a row; a covered cell is left out.
grid_cell_html(cell, tag) ==
    IF cell.skip THEN <<>>
    ELSE <<"<">> \o tag
         \o (IF cell.colspan > 1
             THEN <<" ", "c", "o", "l", "s", "p", "a", "n", "=", "\"">> \o usize_to_string(cell.colspan) \o <<"\"">> ELSE <<>>)
         \o (IF cell.rowspan > 1
             THEN <<" ", "r", "o", "w", "s", "p", "a", "n", "=", "\"">> \o usize_to_string(cell.rowspan) \o <<"\"">> ELSE <<>>)
         \o <<">">> \o process_grid_cell_content(cell.content) \o <<"<", "/">> \o tag \o <<">">>

\* tables.rs.  The first loop of the function fills a vector that nothing
\* reads; the rows rendered are those of detect_spans.
convert_grid_table(text) ==
    LET
        is_header_separator(trimmed) ==
            /\ starts_with(trimmed, <<"+">>)
            /\ contains(trimmed, <<"=">>)
            /\ ~contains(trimmed, <<"-">>)
        \* header_end: the offset of the first header separator line, or None.
        header_end(ls) ==
            IF \E k \in 1..Len(ls) : is_header_separator(trim(ls[k]))
            THEN (CHOOSE k \in 1..Len(ls) :
                     /\ is_header_separator(trim(ls[k]))
                     /\ \A j \in 1..(k - 1) : ~is_header_separator(trim(ls[j]))) - 1
            ELSE None
        header_end_row(ls, he) ==
            IF he = None THEN 0
            ELSE Cardinality({k \in 1..(he - 1) : tables_is_grid_border(trim(ls[k + 1]))})
        row_html(row, tag) ==
            <<"<", "t", "r", ">">> \o join([c \in 1..Len(row) |-> grid_cell_html(row[c], tag)], <<>>)
            \o <<"<", "/", "t", "r", ">", "\n">>
        rendered(parsed_rows, he, her) ==
            <<"<", "t", "a", "b", "l", "e", " ", "c", "l", "a", "s", "s", "=", "\"", "g", "r", "i", "d", "-", "t", "a", "b", "l", "e", "\"", ">", "\n">>
            \o (IF he # None THEN <<"<", "t", "h", "e", "a", "d", ">", "\n">> ELSE <<>>)
            \o join([r \in 1..Len(parsed_rows) |->
                       (IF he # None /\ r - 1 = her THEN <<"<", "/", "t", "h", "e", "a", "d", ">", "\n", "<", "t", "b", "o", "d", "y", ">", "\n">> ELSE <<>>)
                       \o row_html(parsed_rows[r], IF r - 1 < her THEN <<"t", "h">> ELSE <<"t", "d">>)],
                    <<>>)
            \o (IF he # None /\ Len(parsed_rows) > her THEN <<"<", "/", "t", "b", "o", "d", "y", ">", "\n">> ELSE <<>>)
            \o <<"<", "/", "t", "a", "b", "l", "e", ">">>
        table(ls, col_positions, he) ==
            IF Len(col_positions) = 0 THEN <<"<", "p", ">">> \o escape_html(text) \o <<"<", "/", "p", ">">>
            ELSE rendered(detect_spans(ls, col_positions), he, header_end_row(ls, he))
        converted(ls) ==
            IF Len(ls) < 3 THEN <<"<", "p", ">">> \o escape_html(text) \o <<"<", "/", "p", ">">>
            ELSE table(ls, parse_grid_columns(ls[1]), header_end(ls))
    IN
    converted(str_lines(text))

(***************************************************************************)
(* tables.rs: simple tables                                                *)
(***************************************************************************)
\* html_utils.rs
RECURSIVE process_rst_escapes(_)
process_rst_escapes(s) ==
    LET
        escaped(next) ==
            IF next = " " THEN process_rst_escapes(SliceFrom(s, 2))
            ELSE IF next \in {"\\", "*", Backtick, "_", "{", "}", "[", "]", "(", ")", "#",
                              "+", "-", ".", "!", "~", "|"}
            THEN <<next>> \o process_rst_escapes(SliceFrom(s, 2))
            ELSE IF next = "<" THEN <<"&", "l", "t", ";">> \o process_rst_escapes(SliceFrom(s, 2))
            ELSE IF next = ">" THEN <<"&", "g", "t", ";">> \o process_rst_escapes(SliceFrom(s, 2))
            ELSE <<"\\">> \o process_rst_escapes(SliceFrom(s, 1))
    IN
    IF Len(s) = 0 THEN <<>>
    ELSE IF s[1] = "\\" /\ Len(s) > 1 THEN escaped(s[2])
    ELSE <<s[1]>> \o process_rst_escapes(SliceFrom(s, 1))

\* tables.rs: process_inline_already_escaped from offset k.
RECURSIVE already_escaped_from(_, _)
already_escaped_from(chars, k) ==
    LET
        \* Where the scan for the ";" of an entity stops.
        entity_stop ==
            CHOOSE j \in (k + 1)..(k + 10) :
                /\ (j >= Len(chars) \/ j >= k + 10 \/ At(chars, j) = ";" \/ IsWs(At(chars, j)))
                /\ \A m \in (k + 1)..(j - 1) :
                      m < Len(chars) /\ At(chars, m) # ";" /\ ~IsWs(At(chars, m))
        entity(j) ==
            IF j < Len(chars) /\ At(chars, j) = ";"
            THEN Slice(chars, k, j + 1) \o already_escaped_from(chars, j + 1)
            ELSE <<"&", "a", "m", "p", ";">> \o already_escaped_from(chars, k + 1)
        \* find_double_backtick_end, find_double_star_end
        find_double_end(start, c) ==
            IF \E e \in start..(Len(chars) - 2) : At(chars, e) = c /\ At(chars, e + 1) = c
            THEN CHOOSE e \in start..(Len(chars) - 2) :
                    /\ At(chars, e) = c /\ At(chars, e + 1) = c
                    /\ \A m \in start..(e - 1) : ~(At(chars, m) = c /\ At(chars, m + 1) = c)
            ELSE None
        single_end(e) ==
            At(chars, e) = "*" /\ (e + 1 >= Len(chars) \/ At(chars, e + 1) # "*")
        cell_single_star_end(start) ==
            IF \E e \in start..(Len(chars) - 1) : single_end(e)
            THEN CHOOSE e \in start..(Len(chars) - 1) :
                    single_end(e) /\ \A m \in start..(e - 1) : ~single_end(m)
            ELSE None
        plain ==
            (IF At(chars, k) = "<" THEN <<"&", "l", "t", ";">>
             ELSE IF At(chars, k) = ">" THEN <<"&", "g", "t", ";">>
             ELSE <<At(chars, k)>>)
            \o already_escaped_from(chars, k + 1)
        italic(end) ==
            IF At(chars, k) = "*" /\ end # None
            THEN <<"<", "e", "m", ">">> \o escape_html(Slice(chars, k + 1, end)) \o <<"<", "/", "e", "m", ">">>
                 \o already_escaped_from(chars, end + 1)
            ELSE plain
        bold(end) ==
            IF end # None
            THEN <<"<", "s", "t", "r", "o", "n", "g", ">">> \o escape_html(Slice(chars, k + 2, end)) \o <<"<", "/", "s", "t", "r", "o", "n", "g", ">">>
                 \o already_escaped_from(chars, end + 2)
            ELSE italic(cell_single_star_end(k + 1))
        code(end) ==
            IF end # None
            THEN <<"<", "c", "o", "d", "e", ">">> \o escape_html(Slice(chars, k + 2, end)) \o <<"<", "/", "c", "o", "d", "e", ">">>
                 \o already_escaped_from(chars, end + 2)
            ELSE bold(IF At(chars, k) = "*" /\ At(chars, k + 1) = "*"
                      THEN find_double_end(k + 2, "*") ELSE None)
    IN
    IF k >= Len(chars) THEN <<>>
    ELSE IF At(chars, k) = "&" THEN entity(entity_stop)
    ELSE IF k + 1 < Len(chars)
    THEN code(IF At(chars, k) = Backtick /\ At(chars, k + 1) = Backtick
              THEN find_double_end(k + 2, Backtick) ELSE None)
    ELSE italic(cell_single_star_end(k + 1))

\* tables.rs
process_inline_with_escapes(text) ==
    IF contains(text, <<"\\">>) THEN already_escaped_from(process_rst_escapes(text), 0)
    ELSE process_inline(text)

\* tables.rs
is_dash_separator(line) ==
    /\ Len(line) > 0
    /\ \A k \in 1..Len(line) : line[k] \in {"-", " ", "="}
    /\ (contains(line, <<"-">>) \/ contains(line, <<"=">>))

\* tables.rs: the (start, end) offsets of the runs of "=" of a border line.
\* The scan steps over spaces and over "=" only: at any other character it
\* stays where it is and the call never returns.
parse_column_boundaries(border) ==
    LET
        run_start(k) == At(border, k) = "=" /\ (k = 0 \/ At(border, k - 1) # "=")
        run_end(k) ==
            CHOOSE e \in (k + 1)..Len(border) :
                /\ (e = Len(border) \/ At(border, e) # "=")
                /\ \A m \in k..(e - 1) : At(border, m) = "="
        starts == ascending({k \in 0..(Len(border) - 1) : run_start(k)})
    IN
    IF \E k \in 1..Len(border) : border[k] \notin {"=", " "} THEN <<HangMark>>
    ELSE [n \in 1..Len(starts) |-> <<starts[n], run_end(starts[n])>>]

\* tables.rs
extract_cells(line, boundaries) ==
    LET
        cut(s, e) == IF s < Len(line) THEN trim(Slice(line, s, e)) ELSE <<>>
        clip(n) == IF n < Len(line) THEN n ELSE Len(line)
    IN
    [n \in 1..Len(boundaries) |-> cut(clip(boundaries[n][1]), clip(boundaries[n][2]))]

\* convert_simple_table: one row.
simple_row_html(line, boundaries, tag) ==
    LET
        processed(cell) ==
            IF starts_with(cell, <<"h", "t", "t", "p", ":", "/", "/">>) \/ starts_with(cell, <<"h", "t", "t", "p", "s", ":", "/", "/">>)
            THEN <<"<", "a", " ", "h", "r", "e", "f", "=", "\"">> \o escape_html(trim(cell)) \o <<"\"", ">">> \o escape_html(trim(cell))
                 \o <<"<", "/", "a", ">">>
            ELSE process_inline_with_escapes(cell)
        cell_html(cell) ==
            <<"<">> \o tag \o <<">">> \o processed(cell) \o <<"<", "/">> \o tag \o <<">">>
        row(cells) == join([n \in 1..Len(cells) |-> cell_html(cells[n])], <<>>)
    IN
    <<"<", "t", "r", ">">> \o row(extract_cells(line, boundaries)) \o <<"<", "/", "t", "r", ">", "\n">>

\* convert_simple_table: the loop over the lines, from line k on, with the
\* flag in_header and the count of header rows so far.
RECURSIVE simple_table_loop(_, _, _, _, _, _)
simple_table_loop(ls, boundaries, border_positions, k, in_header, header_row_count) ==
    LET
        has_header == Len(border_positions) >= 3
        ends_header ==
            has_header /\ k = border_positions[2] /\ header_row_count > 0
    IN
    IF k >= Len(ls) THEN <<>>
    ELSE IF is_simple_border(trim(ls[k + 1]))
    THEN (IF ends_header THEN <<"<", "/", "t", "h", "e", "a", "d", ">", "\n", "<", "t", "b", "o", "d", "y", ">", "\n">> ELSE <<>>)
         \o simple_table_loop(ls, boundaries, border_positions, k + 1,
                              in_header /\ ~ends_header, header_row_count)
    ELSE IF is_dash_separator(trim(ls[k + 1])) /\ contains(trim(ls[k + 1]), <<"-">>)
    THEN simple_table_loop(ls, boundaries, border_positions, k + 1, in_header,
                           header_row_count)
    ELSE simple_row_html(ls[k + 1], boundaries, IF in_header THEN <<"t", "h">> ELSE <<"t", "d">>)
         \o simple_table_loop(ls, boundaries, border_positions, k + 1, in_header,
                              IF in_header THEN header_row_count + 1
                              ELSE header_row_count)

\* tables.rs
convert_simple_table(text) ==
    LET
        table(ls, boundaries, border_positions) ==
            IF boundaries = <<HangMark>> THEN <<HangMark>>
            ELSE IF Len(boundaries) < 1 THEN <<"<", "p", ">">> \o escape_html(text) \o <<"<", "/", "p", ">">>
            ELSE <<"<", "t", "a", "b", "l", "e", " ", "c", "l", "a", "s", "s", "=", "\"", "s", "i", "m", "p", "l", "e", "-", "t", "a", "b", "l", "e", "\"", ">", "\n">>
                 \o (IF Len(border_positions) >= 3 THEN <<"<", "t", "h", "e", "a", "d", ">", "\n">> ELSE <<>>)
                 \o simple_table_loop(ls, boundaries, border_positions, 0,
                                      Len(border_positions) >= 3, 0)
                 \o (IF Len(border_positions) >= 3 THEN <<"<", "/", "t", "b", "o", "d", "y", ">", "\n">> ELSE <<>>)
                 \o <<"<", "/", "t", "a", "b", "l", "e", ">">>
        converted(ls) ==
            IF Len(ls) < 3 THEN <<"<", "p", ">">> \o escape_html(text) \o <<"<", "/", "p", ">">>
            ELSE table(ls, parse_column_boundaries(trim(ls[1])),
                       ascending({k \in 0..(Len(ls) - 1) : is_simple_border(trim(ls[k + 1]))}))
    IN
    converted(str_lines(text))

\* str::split(p)
RECURSIVE str_split(_, _)
str_split(s, p) ==
    LET
        str_split_at(k) ==
            IF k = None THEN <<s>>
            ELSE <<Slice(s, 0, k)>> \o str_split(SliceFrom(s, k + Len(p)), p)
    IN
    str_split_at(find(s, p))

RECURSIVE classifier_spans(_)
classifier_spans(cs) ==
    IF Len(cs) = 0 THEN <<>>
    ELSE <<" ", "<", "s", "p", "a", "n", " ", "c", "l", "a", "s", "s", "=", "\"", "c", "l", "a", "s", "s", "i", "f", "i", "e", "r", "\"", ">">> \o process_inline(trim(cs[1])) \o <<"<", "/", "s", "p", "a", "n", ">">>
         \o classifier_spans(Tail(cs))

RECURSIVE definition_lines_loop(_, _, _)
definition_lines_loop(ls, k, def_lines) ==
    IF k >= Len(ls) THEN [def_lines |-> def_lines, i |-> k]
    ELSE IF is_blank(ls[k + 1])
         THEN IF k + 1 < Len(ls) /\ indent_of(ls[k + 2]) > 0
              THEN definition_lines_loop(ls, k + 1, Append(def_lines, <<>>))
              ELSE [def_lines |-> def_lines, i |-> k]
    ELSE IF indent_of(ls[k + 1]) > 0
         THEN definition_lines_loop(ls, k + 1, Append(def_lines, trim(ls[k + 1])))
    ELSE [def_lines |-> def_lines, i |-> k]

RECURSIVE definition_list_loop(_, _, _)
definition_list_loop(ls, k, out) ==
    LET
        \* out with one more term: parts is the term line split at " : ", d what
        \* definition_lines_loop returned.
        definition_item(parts, d) ==
            [html |-> out \o <<"<", "d", "t", ">">> \o process_inline(parts[1])
                          \o (IF Len(parts) > 1
                              THEN classifier_spans(str_split(parts[2], <<" ", ":", " ">>))
                              ELSE <<>>)
                          \o <<"<", "/", "d", "t", ">", "\n", "<", "d", "d", ">">>
                          \o process_inline(trim(join(d.def_lines, <<" ">>)))
                          \o <<"<", "/", "d", "d", ">", "\n">>,
             end |-> d.i]
        definition_list_next(r) == definition_list_loop(ls, r.end, r.html)
        definition_list_at(trimmed) ==
            IF Len(trimmed) = 0
            THEN IF /\ k + 1 < Len(ls) /\ ~is_blank(ls[k + 2])
                    /\ indent_of(ls[k + 2]) = 0 /\ k + 2 < Len(ls)
                    /\ indent_of(ls[k + 3]) > 0 /\ ~is_blank(ls[k + 3])
                    /\ ~is_section_adornment(trim(ls[k + 3]))
                 THEN definition_list_loop(ls, k + 1, out)
                 ELSE [html |-> out, end |-> k]
            ELSE IF indent_of(ls[k + 1]) = 0
            THEN definition_list_next(definition_item(splitn2(trimmed, <<" ", ":", " ">>),
                                    definition_lines_loop(ls, k + 1, <<>>)))
            ELSE definition_list_loop(ls, k + 1, out)
    IN
    IF k >= Len(ls) THEN [html |-> out, end |-> k]
    ELSE definition_list_at(trim(ls[k + 1]))

convert_definition_list(ls, start) ==
    LET
        definition_list_closed(r) == [html |-> r.html \o <<"<", "/", "d", "l", ">">>, end |-> r.end]
    IN
    definition_list_closed(definition_list_loop(ls, start, <<"<", "d", "l", ">", "\n">>))

(***************************************************************************)
(* converter.rs: pass 2                                                    *)
(***************************************************************************)
\* Length of the per-level counter array: vec![0; 7].
CounterSlots == 7

\* section_counters as allocated by second_pass.
NewCounters == [n \in 1..CounterSlots |-> 0]

literal_block_html(content) ==
    IF Len(content) > 0
    THEN <<"<", "p", "r", "e", " ", "c", "l", "a", "s", "s", "=", "\"", "n", "o", "h", "i", "g", "h", "l", "i", "g", "h", "t", "\"", ">", "<", "c", "o", "d", "e", ">">> \o escape_html(trim(dedent(content)))
         \o <<"<", "/", "c", "o", "d", "e", ">", "<", "/", "p", "r", "e", ">", "\n">>
    ELSE <<>>

\* One block of pass 2: the handler that took it, the offset it returns, the
\* html it pushes, and the state and counters it leaves.
Block(kind, end, out, st, ctr) ==
    [kind |-> kind, end |-> end, out |-> out, st |-> st, ctr |-> ctr,
     level |-> 0, ch |-> NoChar, prefix |-> <<>>]

\* A numbering that leaves the counters of the deeper levels as they are.
number_without_reset(st, ctr, level) ==
    LET
        bumped == [n \in 1..Len(ctr) |-> IF n - 1 = level THEN ctr[n] + 1 ELSE ctr[n]]
    IN
    IF st.sectnum /\ usize_le(level, st.sectnum_depth) /\ level < Len(ctr)
    THEN [ok |-> TRUE, ctr |-> bumped,
          prefix |-> st.sectnum_prefix
                     \o join([n \in 1..level |-> usize_to_string(bumped[n + 1])], <<".">>)
                     \o st.sectnum_suffix \o <<" ">>]
    ELSE [ok |-> TRUE, ctr |-> ctr, prefix |-> <<>>]

\* The numbering of a section title (converter.rs 316-335): the counters after
\* it and the prefix, or ok = FALSE when the index is outside section_counters.
section_number(st, ctr, level) ==
    LET
        \* The counters after a title of this level: its own slot incremented, the
        \* deeper slots reset.
        bump ==
            [n \in 1..Len(ctr) |->
                IF n - 1 = level THEN ctr[n] + 1 ELSE IF n - 1 > level THEN 0 ELSE ctr[n]]
        \* The counters of levels 1..level joined by ".".
        number_text(bumped) ==
            join([n \in 1..level |-> usize_to_string(bumped[n + 1])], <<".">>)
        numbered(bumped) ==
            [ok |-> TRUE, ctr |-> bumped,
             prefix |-> st.sectnum_prefix \o number_text(bumped)
                        \o st.sectnum_suffix \o <<" ">>]
    IN
    IF st.sectnum /\ usize_le(level, st.sectnum_depth)
    THEN IF level >= Len(ctr)
         THEN [ok |-> FALSE, ctr |-> ctr, prefix |-> <<>>]
         ELSE numbered(bump)
    ELSE [ok |-> TRUE, ctr |-> ctr, prefix |-> <<>>]

heading_html(level, slug, body) ==
    <<"<", "h">> \o usize_to_string(level) \o <<" ", "i", "d", "=", "\"">> \o slug \o <<"\"", ">">> \o body
    \o <<"<", "/", "h">> \o usize_to_string(level) \o <<">", "\n">>

\* second_pass title test (lines 308-310).
sp_is_title(ls, k) ==
    /\ k + 1 < Len(ls)
    /\ Len(trim(ls[k + 1])) > 0
    /\ ~starts_with(trim(ls[k + 1]), <<".", ".">>)
    /\ is_section_adornment(trim(ls[k + 2]))
    /\ Len(trim(ls[k + 2])) >= Len(trim(ls[k + 1]))

section_title_block(ls, k, st, ctr) ==
    LET
        \* The title block once its level g and its numbering n are known.
        numbered_title(trimmed, ch, g, n) ==
            [kind |-> "title", end |-> k + 2,
             out |-> IF n.ok
                     THEN heading_html(g.level, slugify(trimmed),
                                       n.prefix \o process_inline(trimmed))
                     ELSE <<PanicMark>>,
             st |-> [st EXCEPT !.section_chars = g.chars], ctr |-> n.ctr,
             level |-> g.level, ch |-> ch, prefix |-> n.prefix]
        levelled_title(trimmed, ch, g) ==
            numbered_title(trimmed, ch, g, section_number(st, ctr, g.level))
    IN
    levelled_title(trim(ls[k + 1]), trim(ls[k + 2])[1],
                   get_or_assign_level(trim(ls[k + 2])[1], st.section_chars))

overlined_title_block(ls, k, st, ctr) ==
    LET
        levelled_overline(text, ch, g) ==
            [kind |-> "overline", end |-> k + 3,
             out |-> heading_html(g.level, slugify(text), process_inline(text)),
             st |-> [st EXCEPT !.section_chars = g.chars], ctr |-> ctr,
             level |-> g.level, ch |-> ch, prefix |-> <<>>]
    IN
    levelled_overline(trim(ls[k + 2]), trim(ls[k + 1])[1],
                      get_or_assign_level(trim(ls[k + 1])[1], st.section_chars))

\* A second_pass without the transition handler.
no_transition(ls, k) == FALSE

is_transition(ls, k) ==
    /\ Len(trim(ls[k + 1])) >= 4
    /\ is_section_adornment(trim(ls[k + 1]))
    /\ (k = 0 \/ is_blank(ls[k]))
    /\ (k + 1 >= Len(ls) \/ is_blank(ls[k + 2]))

\* A block that ends with "\n" unless it is empty.
line_of(text) == IF Len(text) > 0 THEN concat(<<text, <<"\n">> >>) ELSE <<>>

\* The directive once its name, its arguments and its body c are known.
rendered_directive(name, arguments, c, st, ctr) ==
    Block("directive", c.end,
          line_of(render_directive([name |-> name, arguments |-> arguments,
                                    options |-> c.options, content |-> c.content], st)),
          st, ctr)

\* A ".. name:: arguments" line or a comment: colon_pos is the offset of "::".
named_directive(ls, k, st, ctr, rest, colon_pos, name) ==
    IF colon_pos # None /\ Len(name) > 0 /\ ~contains(name, <<" ">>)
    THEN rendered_directive(name, trim(SliceFrom(rest, colon_pos + 2)),
                            collect_directive(ls, k + 1), st, ctr)
    ELSE Block("comment", skip_indented_block(ls, k), <<>>, st, ctr)

directive_at_colon(ls, k, st, ctr, rest, colon_pos) ==
    named_directive(ls, k, st, ctr, rest, colon_pos, trim(Slice(rest, 0, colon_pos)))

directive_rest(ls, k, st, ctr, rest) ==
    IF starts_with(rest, <<"|">>) /\ contains(SliceFrom(rest, 1), <<"|">>)
    THEN Block("substitution_def", skip_indented_block(ls, k), <<>>, st, ctr)
    ELSE IF starts_with(rest, <<"_">>)
    THEN Block("target", k + 1, <<>>, st, ctr)
    ELSE directive_at_colon(ls, k, st, ctr, rest, find(rest, <<":", ":">>))

directive_block(ls, k, st, ctr) ==
    directive_rest(ls, k, st, ctr, SliceFrom(trim(ls[k + 1]), 3))

\* The directive of a ".. name:: arguments" line at offset k with the body
\* collect_directive gathers, and none for a substitution definition, a
\* target and a comment.
directive_at(ls, k) ==
    LET
        info(name, arguments, c) ==
            <<[name |-> name, arguments |-> arguments, options |-> c.options,
               content |-> c.content, end |-> c.end]>>
        named(rest, colon_pos, name) ==
            IF colon_pos # None /\ Len(name) > 0 /\ ~contains(name, <<" ">>)
            THEN info(name, trim(SliceFrom(rest, colon_pos + 2)), collect_directive(ls, k + 1))
            ELSE <<>>
        at_colon(rest, colon_pos) == named(rest, colon_pos, trim(Slice(rest, 0, colon_pos)))
        of_rest(rest) ==
            IF starts_with(rest, <<"|">>) /\ contains(SliceFrom(rest, 1), <<"|">>) THEN <<>>
            ELSE IF starts_with(rest, <<"_">>) THEN <<>>
            ELSE at_colon(rest, find(rest, <<":", ":">>))
    IN
    of_rest(SliceFrom(trim(ls[k + 1]), 3))

is_field_line(trimmed) ==
    LET
        field_name_at(sc) ==
            /\ sc # None
            /\ Len(Slice(trimmed, 1, sc + 1)) > 0
            /\ ~contains(Slice(trimmed, 1, sc + 1), <<"\n">>)
            /\ ~starts_with(SliceFrom(trimmed, sc + 2), <<Backtick>>)
    IN
    /\ starts_with(trimmed, <<":">>)
    /\ ~starts_with(trimmed, <<":", ":">>)
    /\ field_name_at(second_colon(trimmed))

is_definition_start(ls, k) ==
    /\ indent_of(ls[k + 1]) = 0
    /\ k + 1 < Len(ls)
    /\ indent_of(ls[k + 2]) > 0
    /\ ~is_blank(ls[k + 2])
    /\ ~starts_with(trim(ls[k + 2]), <<".", ".">>)
    /\ ~is_section_adornment(trim(ls[k + 2]))

paragraph_block(ls, k, st, ctr) ==
    LET
        \* A paragraph that ends with "::" and the indented block lit after it.
        paragraph_with_literal(para, lit) ==
            Block("paragraph", lit.end,
                  (IF para = <<":", ":">> THEN <<>>
                   ELSE <<"<", "p", ">">> \o process_inline(trim_end_matches(para, ":")) \o <<":", "<", "/", "p", ">", "\n">>)
                  \o literal_block_html(lit.content),
                  st, ctr)
        collected_paragraph(p) ==
            IF Len(p.para) = 0 THEN Block("paragraph", p.end, <<>>, st, ctr)
            ELSE IF ends_with(p.para, <<":", ":">>)
            THEN paragraph_with_literal(p.para, collect_indented_block(ls, p.end))
            ELSE Block("paragraph", p.end, <<"<", "p", ">">> \o process_inline(p.para) \o <<"<", "/", "p", ">", "\n">>, st, ctr)
    IN
    collected_paragraph(collect_paragraph(ls, k))

\* The blocks that push what a collector or a list renderer returned.
table_block(kind, tab, table_html, st, ctr) ==
    Block(kind, tab.end, concat(<<table_html, <<"\n">> >>), st, ctr)

literal_block(lit, st, ctr) ==
    Block("literal_block", lit.end, literal_block_html(lit.content), st, ctr)

doctest_block(d, st, ctr) ==
    Block("doctest", d.end,
          <<"<", "p", "r", "e", " ", "c", "l", "a", "s", "s", "=", "\"", "d", "o", "c", "t", "e", "s", "t", "\"", ">", "<", "c", "o", "d", "e", " ", "c", "l", "a", "s", "s", "=", "\"", "l", "a", "n", "g", "u", "a", "g", "e", "-", "p", "y", "t", "h", "o", "n", "\"", ">">>
          \o escape_html(d.block) \o <<"<", "/", "c", "o", "d", "e", ">", "<", "/", "p", "r", "e", ">", "\n">>, st, ctr)

list_block(kind, r, st, ctr) ==
    Block(kind, r.end, concat(<<r.html, <<"\n">> >>), st, ctr)

option_list_block(ol, st, ctr) ==
    Block("option_list", ol.end, convert_option_list(ol.text) \o <<"\n">>, st, ctr)

\* The tests of second_pass from the option list on; ol is the text
\* collect_option_list gathers at offset k.
option_list_or_paragraph(ls, k, st, ctr, ol) ==
    IF is_option_list(ol.text) THEN option_list_block(ol, st, ctr)
    ELSE paragraph_block(ls, k, st, ctr)

\* The priority chain of second_pass at offset k < Len(ls): the handler that
\* takes the line; trimmed is the line without its surrounding whitespace.
handler_of(ls, k, trimmed) ==
    IF Len(trimmed) = 0 THEN "blank"
    ELSE IF sp_is_title(ls, k) THEN "title"
    ELSE IF is_overlined(ls, k) THEN "overline"
    ELSE IF is_transition(ls, k) THEN "transition"
    ELSE IF is_simple_table_border(trimmed) /\ Len(collect_simple_table(ls, k).text) > 0
    THEN "simple_table"
    ELSE IF is_grid_border(trimmed) /\ is_grid_table(collect_grid_table(ls, k).text)
    THEN "grid_table"
    ELSE IF starts_with(trimmed, <<".", ".", " ">>) THEN "directive"
    ELSE IF trimmed = <<":", ":">> THEN "literal_block"
    ELSE IF starts_with(trimmed, <<">", ">", ">">>) THEN "doctest"
    ELSE IF starts_with(trimmed, <<"|", " ">>) \/ trimmed = <<"|">> THEN "line_block"
    ELSE IF is_bullet(trimmed) /\ Len(trimmed) > 2 THEN "bullet_list"
    ELSE IF is_enumerated_item(trimmed) THEN "enumerated_list"
    ELSE IF is_field_line(trimmed) THEN "field_list"
    ELSE IF is_definition_start(ls, k) THEN "definition_list"
    ELSE IF is_option_line(trimmed) THEN "option_list"
    ELSE "paragraph"

\* One iteration of the while loop of second_pass at offset k < Len(ls), the
\* handler that takes the line being known.
dispatch_line(handler, ls, k, st, ctr) ==
    CASE handler = "blank" -> Block("blank", k + 1, <<>>, st, ctr)
      [] handler = "title" -> section_title_block(ls, k, st, ctr)
      [] handler = "overline" -> overlined_title_block(ls, k, st, ctr)
      [] handler = "transition" -> Block("transition", k + 1, <<"<", "h", "r", ">", "\n">>, st, ctr)
      [] handler = "simple_table" ->
           table_block("simple_table", collect_simple_table(ls, k),
                       convert_simple_table(collect_simple_table(ls, k).text), st, ctr)
      [] handler = "grid_table" ->
           table_block("grid_table", collect_grid_table(ls, k),
                       convert_grid_table(collect_grid_table(ls, k).text), st, ctr)
      [] handler = "directive" -> directive_block(ls, k, st, ctr)
      [] handler = "literal_block" ->
           literal_block(collect_indented_block(ls, k + 1), st, ctr)
      [] handler = "doctest" ->
           doctest_block(collect_doctest_block(ls, k), st, ctr)
      [] handler = "line_block" ->
           list_block("line_block", convert_line_block(ls, k), st, ctr)
      [] handler = "bullet_list" ->
           list_block("bullet_list", convert_bullet_list(ls, k), st, ctr)
      [] handler = "enumerated_list" ->
           list_block("enumerated_list", convert_enumerated_list(ls, k), st, ctr)
      [] handler = "field_list" ->
           list_block("field_list", convert_field_list(ls, k), st, ctr)
      [] handler = "definition_list" ->
           list_block("definition_list", convert_definition_list(ls, k), st, ctr)
      [] handler = "option_list" ->
           option_list_or_paragraph(ls, k, st, ctr, collect_option_list(ls, k))
      [] OTHER -> paragraph_block(ls, k, st, ctr)

Dispatch(ls, k, st, ctr) == dispatch_line(handler_of(ls, k, trim(ls[k + 1])), ls, k, st, ctr)

\* The iteration at offset k that ran block d never completes: the handler
\* does not return, or it returns the offset it was given and changes nothing.
never_advances(d, k) ==
    \/ (Len(d.out) > 0 /\ d.out[Len(d.out)] = HangMark)
    \/ (~aborted(d.out) /\ d.end <= k)

panics(d) == Len(d.out) > 0 /\ d.out[Len(d.out)] = PanicMark

header_fragment(st) ==
    IF Len(st.header_content) > 0
    THEN <<"<", "h", "e", "a", "d", "e", "r", ">">> \o process_inline(st.header_content[1]) \o <<"<", "/", "h", "e", "a", "d", "e", "r", ">", "\n">>
    ELSE <<>>

footer_fragment(st) ==
    IF Len(st.footer_content) > 0
    THEN <<"<", "f", "o", "o", "t", "e", "r", ">">> \o process_inline(st.footer_content[1]) \o <<"<", "/", "f", "o", "o", "t", "e", "r", ">", "\n">>
    ELSE <<>>

\* The while loop of second_pass from offset k, with the footer that follows it.
RECURSIVE second_pass_from(_, _, _, _, _)
second_pass_from(ls, k, st, ctr, out) ==
    LET
        second_pass_block(d) ==
            IF aborted(d.out) THEN out \o d.out
            ELSE IF never_advances(d, k) THEN Append(out, HangMark)
            ELSE second_pass_from(ls, d.end, d.st, d.ctr, out \o d.out)
    IN
    IF k >= Len(ls) THEN out \o footer_fragment(st)
    ELSE second_pass_block(Dispatch(ls, k, st, ctr))

second_pass(ls, st) == second_pass_from(ls, 0, st, NewCounters, header_fragment(st))

\* Metadata such as an enclosing document holds after its pass 1.
EnclosingState ==
    [ConverterState_new EXCEPT !.sectnum = TRUE,
                               !.header_content = <<<<"H">>>>,
                               !.footer_content = <<<<"F">>>>,
                               !.section_titles = <<<<2, <<"U">>>>>>,
                               !.target_references = <<<<<<"t">>, <<"h", "t", "t", "p", ":", "/", "/", "u">>>>>>]

\* A variant of convert_rst_content that runs pass 2 on the metadata of an
\* enclosing document instead of a fresh state.
convert_with_enclosing_state(content) ==
    IF is_blank(content) THEN <<>>
    ELSE second_pass(str_lines(content), EnclosingState)

convert_rst_content(content) ==
    IF is_blank(content) THEN <<>>
    ELSE second_pass(str_lines(content), ConverterState_new)

\* resolve_substitutions visiting the entries of the map in the given order.
RECURSIVE replace_in_order(_, _, _)
replace_in_order(result, m, order) ==
    IF Len(order) = 0 THEN result
    ELSE replace_in_order(
            str_replace(result, <<"|">> \o order[1] \o <<"|">>, m[order[1]]),
            m, Tail(order))

\* The orders in which a HashMap with these keys can be iterated.
iteration_orders(keys) ==
    {o \in [1..Cardinality(keys) -> keys] : \A a, b \in DOMAIN o : a # b => o[a] # o[b]}

resolve_substitutions(text, st, order) ==
    IF DOMAIN st.substitutions = {} THEN text
    ELSE replace_in_order(text, st.substitutions, order)

\* convert_with_options as a whole, for one iteration order of the map; a
\* panic of pass 1 ends it.
convert(text, order) ==
    LET
        resolved(out, st) ==
            IF aborted(out) THEN out ELSE resolve_substitutions(out, st, order)
        converted(ls, st) ==
            IF first_pass_panicked(st) THEN <<PanicMark>>
            ELSE resolved(second_pass(ls, st), st)
        scanned(ls) == converted(ls, first_pass_from(ls, 0, ConverterState_new))
    IN
    scanned(str_lines(text))

(***************************************************************************)
(* Input documents                                                         *)
(***************************************************************************)
\* Longest plain string, longest inline text run.
MaxPlainLen == 4

MaxInlineLen == 5

\* Most distinct adornment characters in a ladder of titles, most titles in a
\* free sequence of titles, largest :depth: written in a sectnum directive.
MaxLadder == 7

MaxTitles == 2

MaxDepth == 7

\* Most substitution definitions in one document; most header (footer)
\* directives in one document.
MaxDefs == 2

MaxHeaders == 2

\* Most titles in a document that holds a contents directive.
MaxTocTitles == 3

\* Most columns and most rows of a grid table.
MaxGridCols == 3

MaxGridRows == 3

\* Most segments of the inner borders of a grid table, all borders together.
MaxGridSegments == 6

\* Most lines between the first and the last border of a simple table.
MaxSimpleLines == 4

\* Longest line of identical adornment characters standing on its own.
MaxRuleLen == 5

\* Most bullet lines in a run.
MaxItems == 3

\* n spaces.
spaces(n) == [k \in 1..n |-> " "]

\* All sequences over S of length 0..n.
SeqsUpTo(S, n) == UNION {[1..m -> S] : m \in 0..n}

\* A document text from its lines.
doc(ls) == join(ls, <<"\n">>)

\* ls with every non-blank line indented by three spaces.
indented(ls) == [k \in 1..Len(ls) |-> IF Len(ls[k]) = 0 THEN <<>> ELSE <<" ", " ", " ">> \o ls[k]]

\* Characters free of markup meaning that the plain strings are drawn from,
\* the line break and the carriage return.
PlainAlphabet == {"a", "B", " ", "&", "\n", "\r"}

PlainDocs == SeqsUpTo(PlainAlphabet, MaxPlainLen)

\* The adornment characters of is_adornment_char, in the order in which the
\* title ladders introduce them.
AdornOrder ==
    <<"=", "-", "~", "^", "+", "#", "*", ":", "'", "\"", "_", "<", ">", Backtick>>

adornment(ch, n) == [k \in 1..n |-> ch]

\* A title in underline-only form ("u") or overline form ("o"), then a blank line.
title_lines(form, text, ch) ==
    IF form = "u" THEN <<text, adornment(ch, 4), <<>> >>
    ELSE <<adornment(ch, 4), text, adornment(ch, 4), <<>> >>

\* The sectnum directives a document may open with.
SectnumPreambles ==
    {<<>>, <<<<".", ".", " ", "s", "e", "c", "t", "n", "u", "m", ":", ":">>, <<>> >>,
     <<<<".", ".", " ", "s", "e", "c", "t", "n", "u", "m", ":", ":">>, <<" ", " ", " ", ":", "d", "e", "p", "t", "h", ":", " ", "2">>, <<" ", " ", " ", ":", "p", "r", "e", "f", "i", "x", ":", " ", "(">>, <<" ", " ", " ", ":", "s", "u", "f", "f", "i", "x", ":", " ", ")">>, <<>> >>}
    \cup {<<<<".", ".", " ", "s", "e", "c", "t", "n", "u", "m", ":", ":">>, <<" ", " ", " ", ":", "d", "e", "p", "t", "h", ":", " ">> \o usize_to_string(MaxDepth), <<>> >>}

FormPatterns == {<<"u", "u">>, <<"o", "o">>, <<"u", "o">>, <<"o", "u">>}

\* n titles, each introducing the next adornment character, forms alternating
\* as the pattern says; then, if revisit > 0, one more title that reuses the
\* revisit-th character in the other form.
ladder_lines(n, pattern, revisit) ==
    flatten([p \in 1..n |->
               title_lines(pattern[2 - (p % 2)], <<UpperSeq[p]>>, AdornOrder[p])])
    \o (IF revisit > 0
        THEN title_lines(pattern[1 + (revisit % 2)], <<"R">>, AdornOrder[revisit])
        ELSE <<>>)

LadderDocs ==
    {doc(q[1] \o ladder_lines(q[3], q[2], q[4])) :
        q \in {c \in SectnumPreambles \X FormPatterns \X (1..MaxLadder) \X (0..MaxLadder) :
                  c[4] \in {0, 1, 2, c[3]} /\ c[4] <= c[3]}}

TitleChoices == {"u", "o"} \X {"=", "-", "~"}

TitleSeqDocs ==
    {doc(pre \o flatten([p \in 1..Len(ts) |->
                            title_lines(ts[p][1], <<UpperSeq[p]>>, ts[p][2])])
             \o <<<<".", ".", " ", "c", "o", "n", "t", "e", "n", "t", "s", ":", ":">>>>) :
        pre \in {<<>>, <<<<".", ".", " ", "s", "e", "c", "t", "n", "u", "m", ":", ":">>, <<>> >>},
        ts \in SeqsUpTo(TitleChoices, MaxTitles) \ {<<>>}}

\* ts with x put in behind its first n elements.
insert_at(ts, n, x) == SubSeq(ts, 1, n) \o <<x>> \o SubSeq(ts, n + 1, Len(ts))

TocChoices == {"u", "o"} \X {"=", "-"}

\* A contents directive before, between or behind the titles of a document.
ContentsDocs ==
    {doc(flatten(insert_at([p \in 1..Len(q[1]) |->
                               title_lines(q[1][p][1], <<UpperSeq[p]>>, q[1][p][2])],
                           q[2], <<<<".", ".", " ", "c", "o", "n", "t", "e", "n", "t", "s", ":", ":">>, <<>> >>))) :
        q \in {c \in SeqsUpTo(TocChoices, MaxTocTitles) \X (0..MaxTocTitles) :
                  c[2] <= Len(c[1])}}

\* An overlined title directly below the body of a directive or below a
\* comment, no blank line between them, behind a first title and before or
\* behind a contents directive.
AbuttingDocs ==
    {doc(pre \o <<<<"T">>, <<"-", "-", "-", "-">>, <<>> >> \o above
         \o <<<<"=", "=", "=", "=">>, text, <<"=", "=", "=", "=">>, <<>> >> \o post) :
        above \in {<<<<".", ".", " ", "n", "o", "t", "e", ":", ":">>, <<" ", " ", " ", "b", "o", "d", "y">>>>, <<<<".", ".", " ", "c">>>>},
        text \in {<<"L", "o", "n", "g">>, <<"L", "o", "n", "g", "e", "r">>},
        pre \in {<<>>, <<<<".", ".", " ", "c", "o", "n", "t", "e", "n", "t", "s", ":", ":">>, <<>> >>},
        post \in {<<>>, <<<<".", ".", " ", "c", "o", "n", "t", "e", "n", "t", "s", ":", ":">>>>}}

\* A text line directly above an adornment line that may be shorter than it,
\* alone or below a paragraph line, at top level or as the body of a note.
ShortAdornmentDocs ==
    LET bodies == {above \o <<text, adornment(ch, n)>> :
                      above \in {<<>>, <<<<"p">>>>}, text \in {<<"a", "b">>, <<"a", "b", "c", "d">>, <<"a", "b", "c", "d", "e">>},
                      ch \in {"=", "-"}, n \in 3..5}
    IN {doc(b) : b \in bodies}
       \cup {doc(<<<<".", ".", " ", "n", "o", "t", "e", ":", ":">>, <<>> >> \o indented(b)) : b \in bodies}

header_lines(name, body) == <<<<".", ".", " ">> \o name \o <<":", ":">>, <<" ", " ", " ">> \o body, <<>> >>

HeaderFooterDocs ==
    {doc(flatten([p \in 1..Len(hs) |-> header_lines(<<"h", "e", "a", "d", "e", "r">>, hs[p])])
         \o <<<<"p">>, <<>> >>
         \o flatten([p \in 1..Len(fs) |-> header_lines(<<"f", "o", "o", "t", "e", "r">>, fs[p])])) :
        hs \in SeqsUpTo({<<"H", "1">>, <<"H", "2">>}, MaxHeaders),
        fs \in SeqsUpTo({<<"F", "1">>, <<"F", "2">>}, MaxHeaders)}

DefinitionLines ==
    {<<".", ".", " ", "|", "a", "|", " ", "r", "e", "p", "l", "a", "c", "e", ":", ":", " ", "A">>, <<".", ".", " ", "|", "a", "|", " ", "r", "e", "p", "l", "a", "c", "e", ":", ":", " ", "*", "*", "B", "*", "*">>, <<".", ".", " ", "|", "x", "|", " ", "r", "e", "p", "l", "a", "c", "e", ":", ":", " ", "X">>,
     <<".", ".", " ", "|", "a", "|", " ", "r", "e", "p", "l", "a", "c", "e", ":", ":", " ", "|", "x", "|">>, <<".", ".", " ", "|", "a", "|", " ", "i", "m", "a", "g", "e", ":", ":", " ", "u", ".", "p", "n", "g">>, <<".", ".", " ", "|", "a", "|", " ", "u", "n", "i", "c", "o", "d", "e", ":", ":", " ", "0", "x", "4", "1", " ", "6", "6", " ", "z", "z">>}

ReferenceLines ==
    {<<"|", "a", "|">>, <<"|", "a", "|", "x", "|">>, <<"|", "x", "|", " ", "|", "a", "|">>, <<"t", " ", "|", "a", "|", " ", "t", " ", "|", "n", "|">>, <<"|", "a", "|", "x", "|", " ", "|", "x", "|", "a", "|">>}

SubstitutionDocs ==
    {doc(IF first THEN defs \o <<<<>>, ref>> ELSE <<ref, <<>> >> \o defs) :
        first \in BOOLEAN, ref \in ReferenceLines,
        defs \in SeqsUpTo(DefinitionLines, MaxDefs) \ {<<>>}}

\* What an enclosing document can define: numbering, a level-2 title, a
\* hyperlink target, a substitution, a header and a footer.
RichContext ==
    <<<<".", ".", " ", "s", "e", "c", "t", "n", "u", "m", ":", ":">>, <<>>, <<".", ".", " ", "h", "e", "a", "d", "e", "r", ":", ":">>, <<" ", " ", " ", "H">>, <<>>, <<".", ".", " ", "f", "o", "o", "t", "e", "r", ":", ":">>, <<" ", " ", " ", "F">>,
      <<>>, <<".", ".", " ", "_", "t", ":", " ", "h", "t", "t", "p", ":", "/", "/", "u">>, <<".", ".", " ", "|", "x", "|", " ", "r", "e", "p", "l", "a", "c", "e", ":", ":", " ", "X">>, <<>>, <<"S">>, <<"=", "=", "=", "=">>, <<>>,
      <<"U">>, <<"-", "-", "-", "-">>, <<>> >>

NestedBodies ==
    {<<<<"|", "x", "|">>>>, <<<<".", ".", " ", "c", "o", "n", "t", "e", "n", "t", "s", ":", ":">>>>, <<<<".", ".", " ", "t", "a", "r", "g", "e", "t", "-", "n", "o", "t", "e", "s", ":", ":">>>>, <<<<"T">>, <<"=", "=", "=", "=">>>>,
     <<<<"V">>, <<"-", "-", "-", "-">>>>, <<<<"=", "=", "=", "=">>, <<"W">>, <<"=", "=", "=", "=">>>>, <<<<"p">>>>,
     <<<<".", ".", " ", "h", "e", "a", "d", "e", "r", ":", ":">>, <<" ", " ", " ", "N">>>>, <<<<".", ".", " ", "c", "o", "n", "t", "e", "n", "t", "s", ":", ":">>, <<>>, <<"T">>, <<"=", "=", "=", "=">>>>}

\* A body as the content of a directive, as a field value, and as a nested
\* bullet item or a directive nested in a bullet item.
nest(container, body) ==
    IF container = <<"f", "i", "e", "l", "d">> THEN <<<<":", "f", ":", " ">> \o body[1]>> \o indented(Tail(body))
    ELSE IF container = <<"b", "u", "l", "l", "e", "t">> THEN <<<<"-", " ", "i">>, <<" ", " ", "-", " ">> \o body[1]>>
    ELSE IF container = <<"i", "t", "e", "m">> THEN <<<<"-", " ", "i">>>> \o indented(body)
    ELSE <<<<".", ".", " ">> \o container \o <<":", ":">>, <<>> >> \o indented(body)

Containers == {<<"n", "o", "t", "e">>, <<"c", "o", "n", "t", "a", "i", "n", "e", "r">>, <<"t", "o", "p", "i", "c">>, <<"c", "u", "s", "t", "o", "m">>, <<"f", "i", "e", "l", "d">>, <<"b", "u", "l", "l", "e", "t">>, <<"i", "t", "e", "m">>}

NestedDocs ==
    {doc(ctx \o nest(c, b)) :
        ctx \in {<<>>, RichContext}, c \in Containers, b \in NestedBodies}

\* One document per remaining block handler of pass 2.
GalleryDocs ==
    {doc(<<<<"p">>, <<>>, <<"-", "-", "-", "-">>, <<>>, <<"q">>>>),
     doc(<<<<".", ".", " ", "a", " ", "c", "o", "m", "m", "e", "n", "t">>, <<" ", " ", " ", "m", "o", "r", "e">>, <<>>, <<"p">>>>),
     doc(<<<<".", ".", " ", "_", "t", ":", " ", "h", "t", "t", "p", ":", "/", "/", "u">>, <<"p">>>>),
     doc(<<<<":", ":">>, <<>>, <<" ", " ", " ", "l", "i", "t", " ", "<">>, <<>>, <<"p">>>>),
     doc(<<<<"i", "n", "t", "r", "o", ":", ":">>, <<>>, <<" ", " ", " ", "l", "i", "t">>, <<>>, <<"p">>>>),
     doc(<<<<">", ">", ">", " ", "1", " ", "+", " ", "1">>, <<"2">>, <<>>, <<"p">>>>),
     doc(<<<<"|", " ", "o", "n", "e">>, <<"|", " ", " ", " ", "t", "w", "o">>, <<"|">>, <<>>, <<"p">>>>),
     doc(<<<<"-", " ", "a">>, <<" ", " ", "b">>, <<"-", " ", "c">>, <<>>, <<"+", " ", "d">>>>),
     doc(<<<<"1", ".", " ", "a">>, <<"2", ")", " ", "b">>, <<"(", "3", ")", " ", "c">>, <<"#", ".", " ", "d">>, <<>>, <<"p">>>>),
     doc(<<<<":", "f", ":", " ", "v">>, <<":", "g", ":">>, <<" ", " ", " ", "w">>, <<>>, <<":", "r", "e", "f", ":">> \o <<Backtick, "x", Backtick>>>>),
     doc(<<<<"t", "e", "r", "m", " ", ":", " ", "c", "l", "s">>, <<" ", " ", " ", "d", "e", "f">>, <<>>, <<"t", "2">>, <<" ", " ", " ", "d", "2">>>>),
     doc(<<<<"-", "a", " ", " ", "s", "h", "o", "r", "t">>, <<"-", "-", "l", "o", "n", "g", " ", " ", "d", "e", "s", "c">>, <<"/", "V">>, <<>>, <<"p">>>>),
     doc(<<<<".", ".", " ", "c", "o", "d", "e", "-", "b", "l", "o", "c", "k", ":", ":", " ", "p", "y">>, <<" ", " ", " ", ":", "l", "i", "n", "e", "n", "o", "s", ":">>, <<>>, <<" ", " ", " ", "x", " ", "<", " ", "1">>>>),
     doc(<<<<".", ".", " ", "r", "u", "b", "r", "i", "c", ":", ":", " ", "R">>, <<".", ".", " ", "a", "d", "m", "o", "n", "i", "t", "i", "o", "n", ":", ":", " ", "T">>, <<>>, <<" ", " ", " ", "b">>>>),
     doc(<<<<"=", "=", " ", "=", "=">>, <<"h", " ", " ", "k">>, <<"=", "=", " ", "=", "=">>, <<"a", " ", " ", "b">>, <<"=", "=", " ", "=", "=">>, <<>>, <<"p">>>>),
     doc(<<<<"+", "-", "-", "-", "+", "-", "-", "-", "+">>, <<"|", " ", "a", " ", "|", " ", "b", " ", "|">>, <<"+", "-", "-", "-", "-", "-", "-", "-", "+">>, <<"|", " ", "c", " ", " ", " ", "d", " ", "|">>, <<"+", "-", "-", "-", "+", "-", "-", "-", "+">>, <<>>,
           <<"p">>>>)}

\* One document per directive renderer that the other families do not reach,
\* date formats chrono accepts and rejects, in a substitution and in a
\* directive, and sectnum depths inside and outside the range of usize.
DirectiveDocs ==
    {doc(<<<<".", ".", " ", "|", "d", "|", " ", "d", "a", "t", "e", ":", ":", " ", "%", "Q">>, <<>>, <<"o", "n", " ", "|", "d", "|">>>>),
     doc(<<<<".", ".", " ", "|", "d", "|", " ", "d", "a", "t", "e", ":", ":", " ", "%", "Y", "-", "%", "m">>, <<>>, <<"o", "n", " ", "|", "d", "|">>>>),
     doc(<<<<".", ".", " ", "|", "d", "|", " ", "d", "a", "t", "e", ":", ":", " ", "n", "o", "w">>, <<".", ".", " ", "|", "e", "|", " ", "d", "a", "t", "e", ":", ":">>, <<>>, <<"o", "n", " ", "|", "d", "|", " ", "|", "e", "|">>>>),
     doc(<<<<".", ".", " ", "|", "d", "|", " ", "d", "a", "t", "e", ":", ":", " ", "%", "-", "d", " ", "%", "3", "f", " ", "%", ":", "z">>, <<".", ".", " ", "|", "e", "|", " ", "d", "a", "t", "e", ":", ":", " ", "%", "-", "a">>, <<>>, <<"p">>>>),
     doc(<<<<"p">>, <<>>, <<".", ".", " ", "d", "a", "t", "e", ":", ":", " ", "%", "Q">>>>),
     doc(<<<<".", ".", " ", "d", "a", "t", "e", ":", ":", " ", "%">>, <<>>, <<"p">>>>),
     doc(<<<<".", ".", " ", "d", "a", "t", "e", ":", ":", " ", "%", "-", "f", " ", "%", "0", "f", " ", "%", "_", "f", " ", "%", "f">>, <<>>, <<"p">>>>),
     doc(<<<<".", ".", " ", "d", "a", "t", "e", ":", ":", " ", "%", "#", "z">>, <<>>, <<"p">>>>),
     doc(<<<<".", ".", " ", "|", "d", "|", " ", "d", "a", "t", "e", ":", ":", " ", "%", "-", "#", "z">>, <<>>, <<"p">>>>),
     doc(<<<<".", ".", " ", "d", "a", "t", "e", ":", ":", " ", "a", "t", " ", "n", "o", "o", "n">>, <<>>, <<".", ".", " ", "d", "a", "t", "e", ":", ":", " ", "%", "H", ":", "%", "M", " ", "%", "%">>, <<>>, <<".", ".", " ", "d", "a", "t", "e", ":", ":">>>>),
     doc(<<<<".", ".", " ", "i", "m", "a", "g", "e", ":", ":", " ", "a", ".", "p", "n", "g">>, <<" ", " ", " ", ":", "a", "l", "t", ":", " ", "A", "&", "B">>, <<" ", " ", " ", ":", "w", "i", "d", "t", "h", ":", " ", "1", "0", "p", "x">>, <<" ", " ", " ", ":", "h", "e", "i", "g", "h", "t", ":", " ", "5", "p", "x">>,
           <<" ", " ", " ", ":", "t", "a", "r", "g", "e", "t", ":", " ", "h", "t", "t", "p", ":", "/", "/", "u">>>>),
     doc(<<<<".", ".", " ", "f", "i", "g", "u", "r", "e", ":", ":", " ", "f", ".", "p", "n", "g">>, <<" ", " ", " ", ":", "f", "i", "g", "c", "l", "a", "s", "s", ":", " ", "c">>, <<" ", " ", " ", ":", "a", "l", "i", "g", "n", ":", " ", "l", "e", "f", "t">>, <<>>, <<" ", " ", " ", "c", "a", "p">>,
           <<>>, <<" ", " ", " ", "l", "e", "g">>>>),
     doc(<<<<".", ".", " ", "f", "i", "g", "u", "r", "e", ":", ":", " ", "f", ".", "p", "n", "g">>, <<>>, <<" ", " ", " ", "c", "a", "p">>, <<>>, <<" ", " ", " ", ".", ".", "x">>, <<" ", " ", " ", "=", "=", "=", "=">>>>),
     doc(<<<<".", ".", " ", "s", "i", "d", "e", "b", "a", "r", ":", ":", " ", "S">>, <<" ", " ", " ", ":", "s", "u", "b", "t", "i", "t", "l", "e", ":", " ", "u">>, <<>>, <<" ", " ", " ", "b", "o", "d", "y">>>>),
     doc(<<<<".", ".", " ", "s", "i", "d", "e", "b", "a", "r", ":", ":", " ", "S">>, <<>>, <<" ", " ", " ", ".", ".", "x">>, <<" ", " ", " ", "=", "=", "=", "=">>>>),
     doc(<<<<".", ".", " ", "n", "o", "t", "e", ":", ":">>, <<>>, <<" ", " ", " ", "T">>, <<" ", " ", " ", "=", "=", "=", "=">>, <<>>, <<" ", " ", " ", "a", "b", "c", "d", "e">>, <<" ", " ", " ", "=", "=", "=", "=">>>>),
     doc(<<<<".", ".", " ", "n", "o", "t", "e", ":", ":">>, <<>>, <<" ", " ", " ", ".", ".", " ", "n", "o", "t", "e", ":", ":">>, <<>>, <<" ", " ", " ", " ", " ", " ", "T">>, <<" ", " ", " ", " ", " ", " ", "=", "=", "=", "=">>, <<>>,
           <<" ", " ", " ", " ", " ", " ", "a", "b", "c", "d", "e">>, <<" ", " ", " ", " ", " ", " ", "=", "=", "=", "=">>>>),
     doc(<<<<".", ".", " ", "f", "i", "g", "u", "r", "e", ":", ":", " ", "a", ".", "p", "n", "g">>, <<>>, <<" ", " ", " ", "c", "a", "p">>, <<>>, <<" ", " ", " ", "T">>, <<" ", " ", " ", "=", "=", "=", "=">>, <<>>,
           <<" ", " ", " ", "a", "b", "c", "d", "e">>, <<" ", " ", " ", "=", "=", "=", "=">>>>),
     doc(<<<<".", ".", " ", "c", "u", "s", "t", "o", "m", ":", ":">>, <<>>, <<" ", " ", " ", "T">>, <<" ", " ", " ", "=", "=", "=", "=">>, <<>>, <<" ", " ", " ", "a", "b", "c", "d", "e">>, <<" ", " ", " ", "=", "=", "=", "=">>>>),
     doc(<<<<".", ".", " ", "c", "l", "a", "s", "s", ":", ":", " ", "c">>, <<>>, <<" ", " ", " ", ".", ".", "x">>, <<" ", " ", " ", "=", "=", "=", "=">>>>),
     doc(<<<<".", ".", " ", "c", "l", "a", "s", "s", ":", ":", " ", "c">>, <<>>, <<" ", " ", " ", "-", " ", "i">>>>),
     doc(<<<<".", ".", " ", "v", "e", "r", "s", "i", "o", "n", "a", "d", "d", "e", "d", ":", ":", " ", "1", ".", "0">>, <<>>, <<" ", " ", " ", "n", "e", "w">>>>),
     doc(<<<<".", ".", " ", "v", "e", "r", "s", "i", "o", "n", "c", "h", "a", "n", "g", "e", "d", ":", ":", " ", "2", ".", "0">>, <<>>, <<" ", " ", " ", ".", ".", "x">>, <<" ", " ", " ", "=", "=", "=", "=">>>>),
     doc(<<<<".", ".", " ", "d", "e", "p", "r", "e", "c", "a", "t", "e", "d", ":", ":", " ", "3", ".", "0">>, <<>>, <<" ", " ", " ", "o", "l", "d">>>>),
     doc(<<<<".", ".", " ", "d", "e", "p", "r", "e", "c", "a", "t", "e", "d", ":", ":", " ", "3", ".", "0">>, <<>>, <<" ", " ", " ", ".", ".", "x">>, <<" ", " ", " ", "=", "=", "=", "=">>>>),
     doc(<<<<".", ".", " ", "t", "a", "b", "l", "e", ":", ":", " ", "T">>, <<>>, <<" ", " ", " ", "=", "=", " ", "=", "=">>, <<" ", " ", " ", "a", " ", " ", "b">>, <<" ", " ", " ", "=", "=", " ", "=", "=">>>>),
     doc(<<<<".", ".", " ", "t", "a", "b", "l", "e", ":", ":">>, <<>>, <<" ", " ", " ", "a">>>>),
     doc(<<<<".", ".", " ", "r", "a", "w", ":", ":", " ", "h", "t", "m", "l">>, <<>>, <<" ", " ", " ", "<", "b", ">", "x", "<", "/", "b", ">">>>>),
     doc(<<<<".", ".", " ", "r", "a", "w", ":", ":", " ", "l", "a", "t", "e", "x">>, <<>>, <<" ", " ", " ", "<", "b", ">">>>>),
     doc(<<<<".", ".", " ", "i", "n", "c", "l", "u", "d", "e", ":", ":", " ", "a", "&", "b", ".", "r", "s", "t">>, <<>>, <<".", ".", " ", "m", "e", "t", "a", ":", ":">>, <<>>, <<" ", " ", " ", "k", " ", "<", "v", ">">>>>),
     doc(<<<<".", ".", " ", "m", "a", "t", "h", ":", ":">>, <<" ", " ", " ", ":", "l", "a", "b", "e", "l", ":", " ", "e", "1">>, <<>>, <<" ", " ", " ", "a", " ", "<", " ", "b">>>>),
     doc(<<<<".", ".", " ", "t", "o", "c", "t", "r", "e", "e", ":", ":">>, <<" ", " ", " ", ":", "c", "a", "p", "t", "i", "o", "n", ":", " ", "C">>, <<>>, <<" ", " ", " ", "o", "n", "e">>, <<" ", " ", " ", "t", "w", "o">>>>),
     doc(<<<<".", ".", " ", "d", "o", "c", "t", "e", "s", "t", ":", ":">>, <<>>, <<" ", " ", " ", ">", ">", ">", " ", "1">>, <<>>, <<".", ".", " ", "d", "o", "c", "t", "e", "s", "t", ":", ":", " ", "g", "r", "p">>, <<>>, <<" ", " ", " ", ">", ">", ">", " ", "2">>>>),
     doc(<<<<".", ".", " ", "t", "e", "s", "t", "c", "o", "d", "e", ":", ":">>, <<>>, <<" ", " ", " ", "x", " ", "<", " ", "1">>, <<>>, <<".", ".", " ", "t", "e", "s", "t", "o", "u", "t", "p", "u", "t", ":", ":">>, <<>>, <<" ", " ", " ", "y">>>>),
     doc(<<<<".", ".", " ", "u", "n", "i", "c", "o", "d", "e", ":", ":", " ", "0", "x", "4", "1", " ", "6", "6", " ", "0", "x", "D", "8", "0", "0", " ", "1", "1", "1", "4", "1", "1", "2", " ", "4", "2", "9", "4", "9", "6", "7", "2", "9", "6", " ", "+", "6", "7", " ", "0", "x", "Z", " ", "z">>>>),
     doc(<<<<".", ".", " ", "g", "l", "o", "s", "s", "a", "r", "y", ":", ":">>, <<>>, <<" ", " ", " ", "t", "e", "r", "m">>, <<" ", " ", " ", " ", " ", " ", "d", "e", "f">>>>),
     doc(<<<<".", ".", " ", "s", "e", "c", "t", "n", "u", "m", ":", ":">>, <<" ", " ", " ", ":", "d", "e", "p", "t", "h", ":", " ", "1", "8", "4", "4", "6", "7", "4", "4", "0", "7", "3", "7", "0", "9", "5", "5", "1", "6", "1", "6">>, <<>>, <<"T">>, <<"=", "=", "=", "=">>>>),
     doc(<<<<".", ".", " ", "s", "e", "c", "t", "n", "u", "m", ":", ":">>, <<" ", " ", " ", ":", "d", "e", "p", "t", "h", ":", " ", "1", "8", "4", "4", "6", "7", "4", "4", "0", "7", "3", "7", "0", "9", "5", "5", "1", "6", "1", "5">>, <<>>, <<"T">>, <<"=", "=", "=", "=">>>>),
     doc(<<<<".", ".", " ", "s", "e", "c", "t", "n", "u", "m", ":", ":">>, <<" ", " ", " ", ":", "d", "e", "p", "t", "h", ":", " ", "4", "2", "9", "4", "9", "6", "7", "2", "9", "6">>, <<>>, <<"T">>, <<"=", "=", "=", "=">>, <<>>, <<"U">>,
           <<"-", "-", "-", "-">>>>),
     doc(<<<<".", ".", " ", "s", "e", "c", "t", "n", "u", "m", ":", ":">>, <<" ", " ", " ", ":", "d", "e", "p", "t", "h", ":", " ", "+", "0", "1">>, <<>>, <<"T">>, <<"=", "=", "=", "=">>, <<>>, <<"U">>, <<"-", "-", "-", "-">>>>),
     doc(<<<<".", ".", " ", "s", "e", "c", "t", "n", "u", "m", ":", ":">>, <<" ", " ", " ", ":", "d", "e", "p", "t", "h", ":", " ", "0">>, <<>>, <<"T">>, <<"=", "=", "=", "=">>>>)}

\* A border line of a grid table of n columns, each three characters wide:
\* segs are the characters that fill the columns and joints those at the
\* interior column boundaries.
grid_border_line(n, segs, joints) ==
    <<"+">> \o flatten([c \in 1..n |->
                          <<segs[c], segs[c], segs[c],
                            IF c = n THEN "+" ELSE joints[c]>>])

\* The border lines between two rows: any column may lack its rule (the cell
\* above spans two rows), any interior boundary its "+" (the cell below spans
\* columns); a header separator; borders shorter than the table is wide.
GridBorders(n) ==
    {grid_border_line(n, segs, joints) :
        segs \in [1..n -> {"-", " "}], joints \in [1..(n - 1) -> {"+", "-"}]}
    \cup {grid_border_line(n, [c \in 1..n |-> "="], [c \in 1..(n - 1) |-> "+"]),
          <<"+", "-", "-", "-", "-", "-", "+">>, <<"+", "-", "-", "-", "+">>}

\* The content line of row r: one letter per column, and a bar at every
\* boundary where the border above the row has a "+".
grid_content_line(n, r, above) ==
    <<"|">> \o flatten([c \in 1..n |->
                          <<" ", LowerSeq[(r - 1) * n + c], " ",
                            IF c < n /\ 4 * c < Len(above) /\ above[4 * c + 1] # "+"
                            THEN " " ELSE "|">>])

grid_outer_border(n) ==
    grid_border_line(n, [c \in 1..n |-> "-"], [c \in 1..(n - 1) |-> "+"])

\* The lines of a grid table of n columns whose rows are separated by the
\* given borders.
grid_lines(n, borders) ==
    <<grid_outer_border(n), grid_content_line(n, 1, grid_outer_border(n))>>
    \o flatten([r \in 1..Len(borders) |->
                  <<borders[r], grid_content_line(n, r + 1, borders[r])>>])
    \o <<grid_outer_border(n)>>

\* The grid tables of 2..MaxGridCols columns and up to MaxGridRows rows whose
\* inner borders have no more than MaxGridSegments segments together.
GridTexts ==
    UNION {{doc(grid_lines(n, borders)) :
               borders \in SeqsUpTo(GridBorders(n),
                                    IF MaxGridRows - 1 < MaxGridSegments \div n
                                    THEN MaxGridRows - 1 ELSE MaxGridSegments \div n)} :
           n \in 2..MaxGridCols}

\* A line of a simple table of two columns: a border, a dash separator, or
\* the row whose cells are the letters of its place p.
simple_line(kind, p) ==
    IF kind = "border" THEN <<"=", "=", " ", "=", "=">>
    ELSE IF kind = "dash" THEN <<"-", "-", " ", "-", "-">>
    ELSE <<LowerSeq[2 * p - 1], " ", " ", LowerSeq[2 * p]>>

\* Borders, rows and dash separators in any order between two borders.
SimpleTexts ==
    {doc(<<<<"=", "=", " ", "=", "=">>>> \o [p \in 1..Len(kinds) |-> simple_line(kinds[p], p)]
         \o <<<<"=", "=", " ", "=", "=">>>>) :
        kinds \in SeqsUpTo({"border", "row", "dash"}, MaxSimpleLines)}

\* What may stand before a line of adornment characters that follows a
\* blank line or starts the document, and what may stand behind it.
RuleContexts ==
    {<<>>, <<<<"p">>, <<>> >>, <<<<"-", " ", "a">>, <<>> >>, <<<<"1", ".", " ", "a">>, <<>> >>, <<<<":", "f", ":", " ", "v">>, <<>> >>,
     <<<<".", ".", " ", "n", "o", "t", "e", ":", ":">>, <<" ", " ", " ", "x">>, <<>> >>, <<<<":", ":">>, <<>>, <<" ", " ", " ", "l">>, <<>> >>,
     <<<<"T">>, <<"=", "=", "=", "=">>, <<>> >>}

RuleFollowers == {<<>>, << <<>> >>, << <<>>, <<"q">>>>}

\* A line of 1..MaxRuleLen identical adornment characters on its own.
TransitionDocs ==
    {doc(before \o <<adornment(AdornOrder[c], n)>> \o after) :
        before \in RuleContexts, after \in RuleFollowers,
        c \in 1..Len(AdornOrder), n \in 1..MaxRuleLen}

\* A run of bullet lines, the p-th with the p-th marker and the p-th letter
\* as its text.
bullet_run(markers) == [p \in 1..Len(markers) |-> <<markers[p], " ", LowerSeq[p]>>]

\* A run of 1..MaxItems bullet lines at the start of the document or behind
\* a blank line, and at the end of the document or before a text line, a
\* blank line, or a blank line and more text or one more bullet line.
BulletDocs ==
    {doc(before \o bullet_run(markers) \o after) :
        before \in {<<>>, <<<<"p">>, <<>> >>, <<<<"T">>, <<"=", "=", "=", "=">>, <<>> >>,
                    <<<<".", ".", " ", "n", "o", "t", "e", ":", ":">>, <<" ", " ", " ", "x">>, <<>> >>},
        after \in {<<>>, <<<<"q">>>>, << <<>> >>, << <<>>, <<"q">>>>, << <<>>, <<"-", " ", "z">>>>},
        markers \in SeqsUpTo({"-", "*", "+"}, MaxItems) \ {<<>>}}

\* Most bullet lines of a nested bullet list.
MaxTreeItems == 3

\* The nesting levels of the lines of a bullet list: the first line is a
\* top-level item, every other line is at most one level below the line
\* before it.
TreeShapes ==
    {t \in SeqsUpTo(0..(MaxTreeItems - 1), MaxTreeItems) :
        /\ Len(t) > 0
        /\ t[1] = 0
        /\ \A p \in 2..Len(t) : t[p] <= t[p - 1] + 1}

\* A bullet list of that shape, two spaces of indentation for a level, the
\* p-th item with the p-th capital letter as its text.
bullet_tree(t) == [p \in 1..Len(t) |-> spaces(2 * t[p]) \o <<"-", " ", UpperSeq[p]>>]

BulletTreeDocs == {doc(bullet_tree(t)) : t \in TreeShapes}

\* Most titles in a numbered document.
MaxNumbered == 4

\* A sectnum directive, with or without a prefix and a suffix, and up to
\* MaxNumbered titles in the underline form, each of any of three levels.
NumberedDocs ==
    {doc(pre \o flatten([p \in 1..Len(cs) |-> title_lines("u", <<UpperSeq[p]>>, cs[p])])) :
        pre \in {<<<<".", ".", " ", "s", "e", "c", "t", "n", "u", "m", ":", ":">>, <<>> >>,
                 <<<<".", ".", " ", "s", "e", "c", "t", "n", "u", "m", ":", ":">>, <<" ", " ", " ", ":", "d", "e", "p", "t", "h", ":", " ", "2">>, <<" ", " ", " ", ":", "p", "r", "e", "f", "i", "x", ":", " ", "(">>, <<" ", " ", " ", ":", "s", "u", "f", "f", "i", "x", ":", " ", ")">>, <<>> >>},
        cs \in SeqsUpTo({"=", "-", "~"}, MaxNumbered) \ {<<>>}}

\* Most lines of a document of fields and roles.
MaxFieldLines == 3

\* Field lines, lines that start with a role, text lines and blank lines in
\* any order.
FieldRoleDocs ==
    {doc(ls) :
        ls \in SeqsUpTo({<<":", "a", ":", " ", "b">>, <<":", "r", "e", "f", ":", Backtick, "x", Backtick>>,
                         <<":", "s", "u", "b", ":", Backtick, "y", Backtick, " ", "z">>,
                         <<"p">>, <<>>}, MaxFieldLines) \ {<<>>}}

\* Longest line given to the tests for an enumerated item.
MaxEnumLen == 5

\* Lines of digits, letters, "#", and the delimiters of an enumerator.
EnumLines == SeqsUpTo({"1", "a", "i", "#", "(", ")", ".", " "}, MaxEnumLen)

\* Deepest nesting of fields; deepest nesting of notes and of bullet lists.
MaxNesting == 101

MaxBlockNesting == 3

\* A field whose value is a field, and so on, d fields deep: d times ":a: "
\* and the text "x".
nested_fields(d) ==
    [k \in 1..(4 * d + 1) |->
        IF k = 4 * d + 1 THEN "x" ELSE <<":", "a", ":", " ">>[((k - 1) % 4) + 1]]

\* A note whose body is a note, and so on, d notes deep.
nested_notes(d) ==
    doc([k \in 1..(d + 1) |->
            spaces(3 * (k - 1)) \o (IF k <= d THEN <<".", ".", " ", "n", "o", "t", "e", ":", ":">> ELSE <<"x">>)])

\* A bullet item that holds a bullet list, and so on, d lists deep.
nested_bullets(d) == doc([k \in 1..d |-> spaces(2 * (k - 1)) \o <<"-", " ", "b">>])

\* Documents in which several blocks, and blocks behind the first one, hold
\* nested content: two fields, directives of several kinds behind a
\* paragraph, a directive nested in a list item, an enumerated list.
WideDocs ==
    {doc(<<<<":", "a", ":", " ", "x">>, <<":", "b", ":", " ", ":", "c", ":", " ", "y">>>>),
     doc(<<<<"p">>, <<>>, <<":", "a", ":", " ", ":", "b", ":", " ", "x">>>>),
     doc(<<<<"p">>, <<>>, <<".", ".", " ", "t", "o", "p", "i", "c", ":", ":", " ", "T">>, <<>>, <<" ", " ", " ", "-", " ", "b">>, <<" ", " ", " ", " ", " ", "-", " ", "c">>>>),
     doc(<<<<".", ".", " ", "n", "o", "t", "e", ":", ":">>, <<>>, <<" ", " ", " ", ".", ".", " ", "c", "o", "n", "t", "a", "i", "n", "e", "r", ":", ":", " ", "c">>, <<>>, <<" ", " ", " ", " ", " ", " ", ":", "a", ":", " ", "x">>>>),
     doc(<<<<".", ".", " ", "f", "i", "g", "u", "r", "e", ":", ":", " ", "u", ".", "p", "n", "g">>, <<>>, <<" ", " ", " ", "c", "a", "p", "t", "i", "o", "n">>, <<>>, <<" ", " ", " ", "-", " ", "b">>>>),
     doc(<<<<".", ".", " ", "c", "u", "s", "t", "o", "m", ":", ":">>, <<>>, <<" ", " ", " ", "x">>, <<>>, <<".", ".", " ", "v", "e", "r", "s", "i", "o", "n", "a", "d", "d", "e", "d", ":", ":", " ", "1">>, <<>>, <<" ", " ", " ", "y">>>>),
     doc(<<<<"-", " ", "a">>, <<" ", " ", ".", ".", " ", "n", "o", "t", "e", ":", ":">>, <<" ", " ", " ", " ", " ", "x">>, <<"-", " ", "b">>, <<" ", " ", "-", " ", "c">>>>),
     doc(<<<<"1", ".", " ", "a">>, <<" ", " ", " ", "-", " ", "b">>, <<>>, <<"T">>, <<"=", "=", "=", "=">>, <<>>, <<":", "a", ":", " ", "x">>>>),
     doc(<<<<"-", " ", "a", " ", "_", "N", "E", "S", "T", "E", "D", "_", "B", "U", "L", "L", "E", "T", "_", " ", "b">>>>)}

NestingDocs ==
    {nested_fields(d) : d \in (1..MaxBlockNesting) \cup {MaxNesting}}
    \cup {nested_notes(d) : d \in 1..MaxBlockNesting}
    \cup {nested_bullets(d) : d \in 1..MaxBlockNesting}
    \cup WideDocs

\* Longest title of the titles whose id is looked at.
MaxSlugLen == 3

\* Titles of letters of both cases, digits, and the characters slugify turns
\* into a hyphen or drops, each over an underline.
SlugDocs ==
    {doc(<<title, <<"=", "=", "=", "=">>>>) :
        title \in SeqsUpTo({"a", "B", "1", " ", "_", "."}, MaxSlugLen) \ {<<>>}}

Documents ==
    PlainDocs \cup LadderDocs \cup TitleSeqDocs \cup ShortAdornmentDocs
    \cup HeaderFooterDocs \cup SubstitutionDocs \cup NestedDocs \cup GalleryDocs
    \cup ContentsDocs \cup AbuttingDocs \cup TransitionDocs
    \cup BulletDocs \cup SlugDocs \cup NumberedDocs
    \cup FieldRoleDocs \cup BulletTreeDocs \cup DirectiveDocs

\* Text runs given to process_inline on its own.
InlineAlphabet == {"*", "a", " ", "\r", "\\"}

InlineTexts == SeqsUpTo(InlineAlphabet, MaxInlineLen)

\* Longest role content built from the characters that escape_html replaces.
MaxRoleContent == 2

\* The role names of render_role and two it does not know.
RoleNames ==
    {<<"e", "m", "p", "h", "a", "s", "i", "s">>, <<"s", "t", "r", "o", "n", "g">>, <<"l", "i", "t", "e", "r", "a", "l">>, <<"c", "o", "d", "e">>, <<"s", "u", "b", "s", "c", "r", "i", "p", "t">>, <<"s", "u", "b">>, <<"s", "u", "p", "e", "r", "s", "c", "r", "i", "p", "t">>,
     <<"s", "u", "p">>, <<"t", "i", "t", "l", "e", "-", "r", "e", "f", "e", "r", "e", "n", "c", "e">>, <<"t", "i", "t", "l", "e">>, <<"t">>, <<"k", "b", "d">>, <<"d", "f", "n">>, <<"s", "a", "m", "p">>, <<"g", "u", "i", "l", "a", "b", "e", "l">>,
     <<"m", "e", "n", "u", "s", "e", "l", "e", "c", "t", "i", "o", "n">>, <<"f", "i", "l", "e">>, <<"c", "o", "m", "m", "a", "n", "d">>, <<"p", "r", "o", "g", "r", "a", "m">>, <<"o", "p", "t", "i", "o", "n">>, <<"e", "n", "v", "v", "a", "r">>, <<"m", "a", "k", "e", "v", "a", "r">>,
     <<"m", "a", "t", "h">>, <<"r", "e", "f">>, <<"d", "o", "c">>, <<"t", "e", "r", "m">>, <<"a", "b", "b", "r">>, <<"a", "b", "b", "r", "e", "v", "i", "a", "t", "i", "o", "n">>, <<"p", "e", "p">>, <<"r", "f", "c">>,
     <<"c", "l", "a", "s", "s">>, <<"f", "u", "n", "c">>, <<"m", "e", "t", "h">>, <<"m", "o", "d">>, <<"a", "t", "t", "r">>, <<"e", "x", "c">>, <<"o", "b", "j">>, <<"d", "a", "t", "a">>, <<"c", "o", "n", "s", "t">>,
     <<"t", "y", "p", "e">>, <<"c", "u", "s", "t", "o", "m">>, <<"x">>}

RoleContents ==
    (SeqsUpTo({"<", ">", "&", "\"", "a"}, MaxRoleContent) \ {<<>>})
    \cup {<<"a", " ", "<", "b", ">">>, <<"a", " ", "<", "\"", ">">>, <<"A", " ", "(", "<", "b", ">", ")">>, <<"<", "b", ">">>, <<"8">>}

\* The text of a role with its content.
role_text(role, content) == <<":">> \o role \o <<":", Backtick>> \o content \o <<Backtick>>

RoleTexts == {role_text(role, content) : role \in RoleNames, content \in RoleContents}

\* Longest run of plain text before a backslash.
MaxEscapePrefix == 2

\* The characters that follow a backslash: the space, the characters the
\* backslash branch lists, and others.
EscapeFollowers ==
    {" ", "\\", "*", Backtick, "<", ">",
     "_", "{", "}", "[", "]", "(", ")", "#", "+", "-", ".", "!", "~", "|",
     "a", "1", ":", "&", "\"", "=", ","}

\* What stands behind the escaped character.
EscapeTails ==
    {<<>>, <<"b">>, <<" ", "b">>, <<"*", "b", "*">>, <<"*", "*", "b", "*", "*">>, <<":", "s", "u", "b", ":", Backtick, "2", Backtick>>,
     <<"\\", " ", "O">>, <<"<", "b">>, <<"|", "b", "|">>}

\* Plain text, a backslash, one character, and a tail; and the text of the
\* backslash-space test of inline.rs.
EscapeTexts ==
    {u \o <<"\\", c>> \o v :
        u \in SeqsUpTo({"H", " "}, MaxEscapePrefix), c \in EscapeFollowers, v \in EscapeTails}
    \cup {<<"H", "\\", " ", ":", "s", "u", "b", ":", Backtick, "2", Backtick, "\\", " ", "O">>}

\* The texts of the items of a list, of the fields of a field list.
item_texts(items) == flatten([n \in 1..Len(items) |-> nested_item_rst(items[n])])

field_texts(fields) == flatten([n \in 1..Len(fields) |-> field_value_rst(fields[n].value)])

\* The texts that a handler passes to convert_rst_content, in the order of
\* its calls, with the offset behind its block.
calling_block(via, texts, end) == [via |-> via, texts |-> texts, end |-> end]

list_calls(r) == calling_block("list_item", item_texts(r.items), r.end)

field_calls(r) == calling_block("field", field_texts(r.fields), r.end)

directive_calls(info) == calling_block("directive", directive_content_rst(info), info.end)

calls_of(handler, directive, ls, k) ==
    IF handler = "bullet_list" THEN list_calls(bullet_list_loop(ls, k, <<>>))
    ELSE IF handler = "enumerated_list" THEN list_calls(enumerated_list_loop(ls, k, <<>>))
    ELSE IF handler = "field_list" THEN field_calls(field_list_loop(ls, k, <<>>))
    ELSE IF handler = "directive" /\ Len(directive) > 0 THEN directive_calls(directive[1])
    ELSE calling_block("none", <<>>, k)

calls_with(handler, ls, k) ==
    calls_of(handler, IF handler = "directive" THEN directive_at(ls, k) ELSE <<>>, ls, k)

\* The calls of convert_rst_content that the handler of the block at offset k
\* makes.
calls_at(ls, k) == calls_with(handler_of(ls, k, trim(ls[k + 1])), ls, k)

\* What a run of the while loop of second_pass does to section_chars: calls
\* is the sequence of <<char, level>> that its get_or_assign_level calls were
\* given and returned, in the order of the calls, those of the second_pass
\* runs of convert_rst_content within it included; returns tells whether the
\* run came to its end.
level_trace(calls, returns) == [calls |-> calls, returns |-> returns]

trace_then(calls, t) == level_trace(calls \o t.calls, t.returns)

RECURSIVE traced_block(_, _, _, _)
RECURSIVE trace_from(_, _, _, _)
RECURSIVE texts_trace(_, _)

\* convert_rst_content on the given content.
content_trace(content) ==
    IF is_blank(content) THEN level_trace(<<>>, TRUE)
    ELSE trace_from(str_lines(content), 0, ConverterState_new, NewCounters)

\* The conversions of the texts from the n-th on that a handler asks for, one
\* after the other until one does not return.
texts_then(texts, n, t) ==
    IF t.returns THEN trace_then(t.calls, texts_trace(texts, n + 1)) ELSE t

texts_trace(texts, n) ==
    IF n > Len(texts) THEN level_trace(<<>>, TRUE)
    ELSE texts_then(texts, n, content_trace(texts[n]))

\* The block d that the handler of the line at offset k returns, with the
\* calls of that iteration: the one call of a title handler, or the calls of
\* the conversions the handler asks for.
block_trace(ls, k, d) ==
    [block |-> d,
     calls |-> IF d.level > 0 THEN <<<<d.ch, d.level>>>>
               ELSE texts_trace(calls_at(ls, k).texts, 1).calls,
     returns |-> ~aborted(d.out) /\ ~never_advances(d, k)]

traced_block(ls, k, st, ctr) == block_trace(ls, k, Dispatch(ls, k, st, ctr))

\* The iterations of the while loop of second_pass from offset k on.
blocks_then(ls, t) ==
    IF t.returns
    THEN trace_then(t.calls, trace_from(ls, t.block.end, t.block.st, t.block.ctr))
    ELSE level_trace(t.calls, FALSE)

trace_from(ls, k, st, ctr) ==
    IF k >= Len(ls) THEN level_trace(<<>>, TRUE)
    ELSE blocks_then(ls, traced_block(ls, k, st, ctr))

(***************************************************************************)
(* convert_with_options as a state machine                                 *)
(***************************************************************************)
Init ==
    /\ rst \in Documents
    /\ lines = str_lines(rst)
    /\ pc = "first"
    /\ i = 0
    /\ state = ConverterState_new
    /\ section_counters = <<>>
    /\ html = <<>>
    /\ assigned = <<>>
    /\ emitted = <<>>

FirstPass(kind) ==
    LET
        \* The effect of one iteration of the loop of first_pass, s being what the
        \* iteration computes, when it takes the branch named kind.  A panic of
        \* process_substitution ends the conversion.
        FirstPassEffect(s) ==
            /\ s.kind = kind
            /\ IF first_pass_panicked(s.st)
               THEN /\ pc' = "panic"
                    /\ UNCHANGED <<i, state, assigned>>
               ELSE /\ i' = s.next
                    /\ state' = s.st
                    /\ assigned' = assigned \o s.call
                    /\ UNCHANGED pc
            /\ UNCHANGED <<rst, lines, section_counters, html, emitted>>
    IN
    /\ pc = "first"
    /\ i < Len(lines)
    /\ FirstPassEffect(first_pass_step(lines, i, state))

FirstPassTitle == FirstPass("title")

FirstPassOverline == FirstPass("overline")

FirstPassDirective == FirstPass("directive")

FirstPassOther == FirstPass("other")

\* first_pass returns; second_pass pushes the header and allocates the counters.
StartSecondPass ==
    /\ pc = "first"
    /\ i >= Len(lines)
    /\ pc' = "second"
    /\ i' = 0
    /\ html' = header_fragment(state)
    /\ section_counters' = NewCounters
    /\ UNCHANGED <<rst, lines, state, assigned, emitted>>

\* One iteration of the while loop of second_pass: the first handler of the
\* priority chain that takes the line at the cursor runs.
SecondPassStep ==
    LET
        \* The effect of one iteration of the while loop of second_pass, t.block
        \* being the block it handles and t.calls the get_or_assign_level calls it
        \* makes.  A panic ends the conversion.  A handler that never returns,
        \* because a second_pass that convert_rst_content runs for it never
        \* completes, has made the calls that came before; an iteration that
        \* returns with the cursor where it was is repeated for ever and leaves
        \* every variable as it is.
        SecondPassEffect(t) ==
            IF panics(t.block)
            THEN /\ pc' = "panic"
                 /\ assigned' = assigned \o t.calls
                 /\ UNCHANGED <<rst, lines, i, state, section_counters, html, emitted>>
            ELSE IF aborted(t.block.out)
            THEN /\ pc' = "hang"
                 /\ assigned' = assigned \o t.calls
                 /\ UNCHANGED <<rst, lines, i, state, section_counters, html, emitted>>
            ELSE IF never_advances(t.block, i)
            THEN UNCHANGED vars
            ELSE /\ i' = t.block.end
                 /\ html' = html \o t.block.out
                 /\ state' = t.block.st
                 /\ section_counters' = t.block.ctr
                 /\ assigned' = assigned \o t.calls
                 /\ emitted' = Append(emitted,
                                  [kind |-> t.block.kind, start |-> i, end |-> t.block.end,
                                   level |-> t.block.level, ch |-> t.block.ch,
                                   prefix |-> t.block.prefix, out |-> t.block.out])
                 /\ UNCHANGED <<rst, lines, pc>>
    IN
    /\ pc = "second"
    /\ i < Len(lines)
    /\ SecondPassEffect(traced_block(lines, i, state, section_counters))

\* The loop of second_pass ends; the footer is pushed and the html returned.
FinishSecondPass ==
    /\ pc = "second"
    /\ i >= Len(lines)
    /\ pc' = "resolve"
    /\ html' = html \o footer_fragment(state)
    /\ UNCHANGED <<rst, lines, i, state, section_counters, assigned, emitted>>

\* resolve_substitutions; the map is visited in whatever order it iterates.
ResolveSubstitutions ==
    /\ pc = "resolve"
    /\ \E order \in iteration_orders(DOMAIN state.substitutions) :
          html' = resolve_substitutions(html, state, order)
    /\ pc' = "done"
    /\ UNCHANGED <<rst, lines, i, state, section_counters, assigned, emitted>>

Next ==
    \/ FirstPassTitle
    \/ FirstPassOverline
    \/ FirstPassDirective
    \/ FirstPassOther
    \/ StartSecondPass
    \/ SecondPassStep
    \/ FinishSecondPass
    \/ ResolveSubstitutions

Spec == Init /\ [][Next]_vars

(***************************************************************************)
(* process_inline on its own                                               *)
(***************************************************************************)
InitInline ==
    /\ rst \in InlineTexts \cup EscapeTexts \cup RoleTexts
    /\ lines = <<rst>>
    /\ pc = "inline"
    /\ i = 0
    /\ state = ConverterState_new
    /\ section_counters = <<>>
    /\ html = <<>>
    /\ assigned = <<>>
    /\ emitted = <<>>

ProcessInline ==
    /\ pc = "inline"
    /\ html' = process_inline(rst)
    /\ pc' = "inline_done"
    /\ UNCHANGED <<rst, lines, i, state, section_counters, assigned, emitted>>

NextInline == ProcessInline

SpecInline == InitInline /\ [][NextInline]_vars

(***************************************************************************)
(* The table converters on their own: the public functions                 *)
(* convert_grid_table and convert_simple_table of tables.rs, called with   *)
(* the text rst, and html the string they return.                          *)
(***************************************************************************)
InitTable ==
    /\ \/ rst \in GridTexts /\ pc = "grid"
       \/ rst \in SimpleTexts /\ pc = "simple"
    /\ lines = str_lines(rst)
    /\ i = 0
    /\ state = ConverterState_new
    /\ section_counters = <<>>
    /\ html = <<>>
    /\ assigned = <<>>
    /\ emitted = <<>>

\* tables::convert_grid_table(rst) returns.
ConvertGridTable ==
    /\ pc = "grid"
    /\ html' = convert_grid_table(rst)
    /\ pc' = "grid_done"
    /\ UNCHANGED <<rst, lines, i, state, section_counters, assigned, emitted>>

\* tables::convert_simple_table(rst) returns, or never does.
ConvertSimpleTable ==
    /\ pc = "simple"
    /\ html' = convert_simple_table(rst)
    /\ pc' = "simple_done"
    /\ UNCHANGED <<rst, lines, i, state, section_counters, assigned, emitted>>

NextTable ==
    \/ ConvertGridTable
    \/ ConvertSimpleTable

SpecTable == InitTable /\ [][NextTable]_vars


(***************************************************************************)
(* The two tests for an enumerated item on their own                       *)
(***************************************************************************)
InitEnum ==
    /\ rst \in EnumLines
    /\ lines = <<rst>>
    /\ pc = "enum"
    /\ i = 0
    /\ state = ConverterState_new
    /\ section_counters = <<>>
    /\ html = <<>>
    /\ assigned = <<>>
    /\ emitted = <<>>

\* second_pass asks is_enumerated_item about the trimmed line.
SecondPassEnumTest ==
    /\ pc = "enum"
    /\ emitted' = Append(emitted, [kind |-> "is_enumerated_item",
                                   accepts |-> is_enumerated_item(trim(rst))])
    /\ pc' = "enum_classify"
    /\ UNCHANGED <<rst, lines, i, state, section_counters, html, assigned>>

\* classify_line asks is_enumerated_list_item about the trimmed line.
ClassifierEnumTest ==
    /\ pc = "enum_classify"
    /\ emitted' = Append(emitted, [kind |-> "is_enumerated_list_item",
                                   accepts |-> is_enumerated_list_item(trim(rst))])
    /\ pc' = "enum_done"
    /\ UNCHANGED <<rst, lines, i, state, section_counters, html, assigned>>

NextEnum == SecondPassEnumTest \/ ClassifierEnumTest

SpecEnum == InitEnum /\ [][NextEnum]_vars

(***************************************************************************)
(* The nesting of convert_rst_content calls                                *)
(*                                                                         *)
(* rst is the text that the innermost running call of convert or of        *)
(* convert_rst_content was given, lines its lines, i the offset of the     *)
(* while loop of its second_pass, and state and section_counters the       *)
(* state that loop runs on.  emitted is the stack of the calls that wait   *)
(* for the running one, innermost last: its length is the number of        *)
(* convert_rst_content calls that have not returned.  assigned holds the   *)
(* texts that the handler of the block at offset i has converted so far.   *)
(***************************************************************************)
nesting_depth == Len(emitted)

InitNesting ==
    /\ rst \in NestingDocs
    /\ lines = str_lines(rst)
    /\ pc = "nest"
    /\ i = 0
    /\ state = first_pass_from(lines, 0, ConverterState_new)
    /\ section_counters = NewCounters
    /\ html = <<>>
    /\ assigned = <<>>
    /\ emitted = <<>>

\* The handler of a block that makes no call has run and returned block d: the
\* loop goes on behind the block, or never completes the iteration.
RunBlock(d) ==
    /\ IF aborted(d.out) \/ never_advances(d, i)
       THEN pc' = "stuck" /\ UNCHANGED <<i, state, section_counters>>
       ELSE /\ i' = d.end
            /\ state' = d.st
            /\ section_counters' = d.ctr
            /\ UNCHANGED pc
    /\ UNCHANGED <<rst, lines, html, assigned, emitted>>

\* One iteration of the while loop of second_pass at a block whose handler
\* does not call convert_rst_content.
StepBlock ==
    /\ pc = "nest"
    /\ i < Len(lines)
    /\ Len(calls_at(lines, i).texts) = 0
    /\ RunBlock(Dispatch(lines, i, state, section_counters))

\* convert_rst_content is entered with the given content by the handler of
\* the block at offset i, which waits with the offset end behind its block: it
\* returns at once when the content is blank, and runs second_pass on the
\* lines of the content with a new state when it is not.
EnterContent(content, end, total) ==
    /\ emitted' = Append(emitted, [rst |-> rst, lines |-> lines, i |-> i, end |-> end,
                                   state |-> state, section_counters |-> section_counters,
                                   converted |-> Append(assigned, content),
                                   total |-> total])
    /\ rst' = content
    /\ lines' = IF is_blank(content) THEN <<>> ELSE str_lines(content)
    /\ i' = 0
    /\ state' = ConverterState_new
    /\ section_counters' = NewCounters
    /\ assigned' = <<>>
    /\ UNCHANGED <<pc, html>>

\* The next call of the handler with the calls b.
EnterNext(via, b) ==
    /\ b.via = via
    /\ Len(assigned) < Len(b.texts)
    /\ EnterContent(b.texts[Len(assigned) + 1], b.end, Len(b.texts))

\* convert_field_list renders the value of a field (converter.rs 1207).
EnterFieldValue ==
    /\ pc = "nest"
    /\ i < Len(lines)
    /\ EnterNext("field", calls_at(lines, i))

\* A renderer of directives.rs renders the body of a directive with
\* render_directive_content.
EnterDirectiveBody ==
    /\ pc = "nest"
    /\ i < Len(lines)
    /\ EnterNext("directive", calls_at(lines, i))

\* render_list_item_content renders the bullet lines or the directive nested
\* in an item of a bullet list or of an enumerated list (converter.rs 1038,
\* 1045).
EnterListItemContent ==
    /\ pc = "nest"
    /\ i < Len(lines)
    /\ EnterNext("list_item", calls_at(lines, i))

\* The running call returns to the handler f that made it: the handler makes
\* its next call, or returns to its loop when it has made them all.
ReturnTo(f) ==
    /\ rst' = f.rst
    /\ lines' = f.lines
    /\ state' = f.state
    /\ section_counters' = f.section_counters
    /\ IF Len(f.converted) = f.total
       THEN i' = f.end /\ assigned' = <<>>
       ELSE i' = f.i /\ assigned' = f.converted
    /\ emitted' = SubSeq(emitted, 1, Len(emitted) - 1)
    /\ UNCHANGED <<pc, html>>

\* The while loop of a second_pass that convert_rst_content runs has come to
\* the end of its lines.
ReturnContent ==
    /\ pc = "nest"
    /\ i >= Len(lines)
    /\ Len(emitted) > 0
    /\ ReturnTo(emitted[Len(emitted)])

NextNesting ==
    \/ StepBlock
    \/ EnterFieldValue
    \/ EnterDirectiveBody
    \/ EnterListItemContent
    \/ ReturnContent

SpecNesting == InitNesting /\ [][NextNesting]_vars
(***************************************************************************)
(* Properties                                                              *)
(***************************************************************************)
Range(s) == {s[n] : n \in 1..Len(s)}

\* The placeholder text of a substitution reference.
reference(name) == <<"|">> \o name \o <<"|">>

\* An emitted block of pass 2 whose html comes, in whole or in part, from
\* convert_rst_content: a list or a directive with a body.  The contents and
\* target-notes directives of the document itself are rendered from the
\* document's own metadata and are not nested renders.
nested_render_block(e) ==
    /\ e.kind \in {"directive", "bullet_list", "enumerated_list", "field_list",
                   "definition_list"}
    /\ ~starts_with(trim(lines[e.start + 1]), <<".", ".", " ", "c", "o", "n", "t", "e", "n", "t", "s">>)
    /\ ~starts_with(trim(lines[e.start + 1]), <<".", ".", " ", "t", "a", "r", "g", "e", "t", "-", "n", "o", "t", "e", "s">>)

\* C1: every iteration of the block-dispatch loop of pass 2 strictly advances
\* the line cursor: whatever line the cursor is at, the handler that takes it
\* returns, and returns an end position behind its start.
C1_EveryIterationAdvances ==
    (pc = "second" /\ i < Len(lines))
        => ~never_advances(Dispatch(lines, i, state, section_counters), i)

\* C2: with section numbering enabled, convert never panics while numbering a
\* heading: the level that indexes section_counters is within its bounds.
C2_NumberingNeverPanics == ~(pc = "panic" /\ state.sectnum)

\* text has "**" at an emphasis boundary and no "**" anywhere behind it.
opens_unterminated_bold(text) ==
    \E k \in 0..(Len(text) - 2) :
        /\ MatchAt(text, <<"*", "*">>, k)
        /\ is_inline_start(k, text)
        /\ \A j \in (k + 2)..(Len(text) - 2) : ~MatchAt(text, <<"*", "*">>, j)

\* C3: a text run with an opening "**" at an emphasis boundary and no closing
\* "**" behind it is emitted literally, delimiter included, and without any
\* strong or em element.
C3_UnterminatedBoldIsLiteral ==
    (pc = "inline_done" /\ opens_unterminated_bold(rst))
        => /\ contains(html, <<"*", "*">>)
           /\ ~contains(html, <<"<", "s", "t", "r", "o", "n", "g", ">">>)
           /\ ~contains(html, <<"<", "e", "m", ">">>)

\* The characters that start or delimit a construct of the markup: the
\* adornment characters and the other punctuation that second_pass and
\* process_inline test for, the digits and letters of enumerators excepted.
MarkupSignificant ==
    {"=", "-", "~", Backtick, ":", "'", "\"", "^", "_", "*", "+", "#", "<", ">",
     "|", ".", "(", ")", "[", "]", "/", "\\"}

Plain(s) == \A k \in 1..Len(s) : s[k] \notin MarkupSignificant

OneLine(s) == ~contains(s, <<"\n">>)

\* C4 as stated: for every string s without backslash and markup-significant
\* character, convert(s) is "<p>" + entity-escaped s + "</p>\n".
C4_PlainStringIsOneParagraph ==
    (pc = "done" /\ Plain(rst))
        => html = <<"<", "p", ">">> \o escape_html(rst) \o <<"<", "/", "p", ">", "\n">>

\* C4, amended: for every string s of one line without backslash and
\* markup-significant character, convert(s) is empty when s is blank and
\* otherwise "<p>" + entity-escaped s without its surrounding whitespace
\* + "</p>\n".
C4_PlainLineIsTrimmedParagraph ==
    (pc = "done" /\ Plain(rst) /\ OneLine(rst))
        => html = IF is_blank(rst) THEN <<>>
                  ELSE <<"<", "p", ">">> \o escape_html(trim(rst)) \o <<"<", "/", "p", ">", "\n">>

C4_Witness ==
    /\ pc = "done"
    /\ Plain(rst)
    /\ OneLine(rst)
    /\ rst # trim(rst)
    /\ contains(rst, <<"&">>)
    /\ html = <<"<", "p", ">">> \o escape_html(trim(rst)) \o <<"<", "/", "p", ">", "\n">>

\* The position, among the get_or_assign_level calls made so far, of the
\* first call with the character of call n.
first_call(n) ==
    CHOOSE m \in 1..n :
        /\ assigned[m][1] = assigned[n][1]
        /\ \A j \in 1..(m - 1) : assigned[j][1] # assigned[n][1]

\* C5: within one convert call the k-th distinct adornment character met gets
\* level k, and every later title with that character gets the same level,
\* in pass 1 and in pass 2, in either title form and whatever its nesting:
\* each get_or_assign_level call of the conversion returns the rank that the
\* first call with its character gave the character.
C5_LevelsByFirstOccurrence ==
    \A n \in 1..Len(assigned) :
        assigned[n][2] = Cardinality({assigned[m][1] : m \in 1..first_call(n)})

\* C6: when the document contains a sectnum directive, every section title
\* emitted by pass 2 of the document whose level is at most the configured
\* depth carries a numeric prefix, in either title form.
C6_TitlesWithinDepthNumbered ==
    \A e \in Range(emitted) :
        (e.kind \in {"title", "overline"} /\ state.sectnum
         /\ usize_le(e.level, state.sectnum_depth))
            => Len(e.prefix) > 0

\* The offsets of the lines that open a directive of the given name.
directive_offsets(name) ==
    {k \in 0..(Len(lines) - 1) :
        starts_with(trim(lines[k + 1]), <<".", ".", " ">> \o name \o <<":", ":">>)}

\* The content of the first directive of the given name.
first_content(name) ==
    header_footer_content(lines,
        CHOOSE k \in directive_offsets(name) : \A j \in directive_offsets(name) : k <= j,
        (CHOOSE k \in directive_offsets(name) : \A j \in directive_offsets(name) : k <= j) + 1,
        <<>>)

\* C7: when a document contains two or more header (footer) directives, the
\* header (footer) fragment that convert emits is the content of the first.
C7_FirstHeaderAndFooterWin ==
    pc = "done" =>
        /\ Cardinality(directive_offsets(<<"h", "e", "a", "d", "e", "r">>)) >= 2
              => starts_with(html, <<"<", "h", "e", "a", "d", "e", "r", ">">> \o process_inline(first_content(<<"h", "e", "a", "d", "e", "r">>))
                                   \o <<"<", "/", "h", "e", "a", "d", "e", "r", ">", "\n">>)
        /\ Cardinality(directive_offsets(<<"f", "o", "o", "t", "e", "r">>)) >= 2
              => ends_with(html, <<"<", "f", "o", "o", "t", "e", "r", ">">> \o process_inline(first_content(<<"f", "o", "o", "t", "e", "r">>))
                                 \o <<"<", "/", "f", "o", "o", "t", "e", "r", ">", "\n">>)

\* text with every reference to a name of the map m, read from left to right
\* from offset k, replaced by the value of that name.
RECURSIVE replace_references(_, _, _)

\* The reference at offset j is replaced and the scan goes on behind it.
replace_reference_of(text, m, k, j, name) ==
    Slice(text, k, j) \o m[name] \o replace_references(text, m, j + Len(name) + 2)

replace_reference_at(text, m, k, j) ==
    IF j = None THEN SliceFrom(text, k)
    ELSE replace_reference_of(text, m, k, j,
            CHOOSE name \in DOMAIN m : MatchAt(text, reference(name), j))

replace_references(text, m, k) ==
    replace_reference_at(text, m, k,
        FirstFrom(k, {j \in 0..(Len(text) - 1) :
                         \E name \in DOMAIN m : MatchAt(text, reference(name), j)}))

\* C8: the final pass of convert replaces every reference in the html of the
\* document whose name has a definition by the html computed from the last
\* definition of that name.
C8_EveryReferenceReplaced ==
    [][(pc = "resolve" /\ pc' = "done")
          => html' = replace_references(html, state.substitutions, 0)]_vars

\* C9 as stated: a placeholder that a nested render leaves in its output is
\* still in the string convert returns, even when the document defines its
\* name.
C9_NestedPlaceholderUnresolved ==
    pc = "done" =>
        \A e \in Range(emitted) : \A name \in DOMAIN state.substitutions :
            (nested_render_block(e) /\ contains(e.out, reference(name)))
                => contains(html, reference(name))

\* C10: a nested render runs pass 2 on a fresh, empty state: its output has
\* no header or footer fragment, no entry of a table of contents, no list of
\* target notes and no numbered heading, whatever the document defines.
C10_NestedRenderSeesNoMetadata ==
    \A e \in Range(emitted) :
        nested_render_block(e)
            => /\ ~contains(e.out, <<"<", "h", "e", "a", "d", "e", "r", ">">>)
               /\ ~contains(e.out, <<"<", "f", "o", "o", "t", "e", "r", ">">>)
               /\ ~contains(e.out, <<"<", "u", "l", " ", "c", "l", "a", "s", "s", "=", "\"", "t", "o", "c", "\"", ">">>)
               /\ ~contains(e.out, <<"<", "d", "i", "v", " ", "c", "l", "a", "s", "s", "=", "\"", "t", "a", "r", "g", "e", "t", "-", "n", "o", "t", "e", "s", "\"", ">">>)
               /\ \A d \in Digits : ~contains(e.out, <<"\"", ">">> \o <<d>>)

C10_Witness ==
    /\ pc = "done"
    /\ state.sectnum
    /\ Len(state.section_titles) > 0
    /\ Len(state.target_references) > 0
    /\ Len(state.header_content) > 0
    /\ \E e \in Range(emitted) :
          /\ nested_render_block(e)
          /\ contains(e.out, <<"<", "d", "i", "v", " ", "c", "l", "a", "s", "s", "=", "\"", "c", "o", "n", "t", "e", "n", "t", "s", "\"", ">">>)
          /\ contains(e.out, <<"<", "h", "1", " ", "i", "d", "=">>)

\* The (level, text) pairs of the section titles that pass 2 emitted a
\* heading for, from the n-th emitted block on.
RECURSIVE emitted_headings(_)
emitted_headings(n) ==
    IF n > Len(emitted) THEN <<>>
    ELSE (IF emitted[n].kind = "title"
          THEN <<<<emitted[n].level, trim(lines[emitted[n].start + 1])>>>>
          ELSE IF emitted[n].kind = "overline"
          THEN <<<<emitted[n].level, trim(lines[emitted[n].start + 2])>>>>
          ELSE <<>>)
         \o emitted_headings(n + 1)

\* The entries of a table of contents for the titles of level above 1 occur
\* in text, one behind the other.
RECURSIVE lists_in_order(_, _)
lists_in_order(text, titles) ==
    IF Len(titles) = 0 THEN TRUE
    ELSE IF titles[1][1] <= 1 THEN lists_in_order(text, Tail(titles))
    ELSE /\ find(text, toc_entries(<<titles[1]>>)) # None
         /\ lists_in_order(
               SliceFrom(text, find(text, toc_entries(<<titles[1]>>))
                               + Len(toc_entries(<<titles[1]>>))),
               Tail(titles))

\* An emitted block that is a contents directive of the document.
contents_block(e) ==
    e.kind = "directive" /\ starts_with(trim(lines[e.start + 1]), <<".", ".", " ", "c", "o", "n", "t", "e", "n", "t", "s", ":", ":">>)

\* C11: pass 1 completes before pass 2 emits anything, and a top-level
\* contents directive lists every section title of the document whose level
\* is greater than 1, in document order, whether the title stands before or
\* behind the directive.
C11_ContentsListsEverySection ==
    /\ pc = "first" => emitted = <<>>
    /\ pc \in {"resolve", "done"} =>
          \A e \in Range(emitted) :
              contents_block(e) => lists_in_order(e.out, emitted_headings(1))

\* The rows that span detection builds for the grid table of the state.
parsed_rows == detect_spans(lines, parse_grid_columns(lines[1]))

\* The column at which cell c of a row starts: the column-spans of the cells
\* before it, added up.
RECURSIVE column_of(_, _)
column_of(row, c) ==
    IF c <= 1 THEN 0 ELSE column_of(row, c - 1) + row[c - 1].colspan

\* C12: in a grid table a cell is left out of the output as covered only
\* when a cell with row-span 2 of the row before starts at the same column,
\* also when the two rows differ in their column-spans.
C12_CoveredCellUnderRowSpan ==
    pc = "grid_done" =>
        \A r \in 2..Len(parsed_rows) : \A c \in 1..Len(parsed_rows[r]) :
            ~contains(html, <<">">> \o parsed_rows[r][c].content \o <<"<", "/", "t">>)
                => \E b \in 1..Len(parsed_rows[r - 1]) :
                      /\ parsed_rows[r - 1][b].rowspan = 2
                      /\ column_of(parsed_rows[r - 1], b) = column_of(parsed_rows[r], c)

\* The border line above row r of a table in which content lines and border
\* lines alternate.
border_above(r) == lines[2 * r - 1]

\* The border has a "+" at column boundary k; it has another character there.
has_plus(border, k) ==
    /\ parse_grid_columns(lines[1])[k + 1] < Len(border)
    /\ At(border, parse_grid_columns(lines[1])[k + 1]) = "+"

lacks_plus(border, k) ==
    /\ parse_grid_columns(lines[1])[k + 1] < Len(border)
    /\ At(border, parse_grid_columns(lines[1])[k + 1]) # "+"

\* The first column boundary behind boundary k at which the border has a
\* "+", or the last boundary when it has none.
closing_boundary(border, k) ==
    IF \E j \in (k + 1)..(Len(parse_grid_columns(lines[1])) - 1) : has_plus(border, j)
    THEN CHOOSE j \in (k + 1)..(Len(parse_grid_columns(lines[1])) - 1) :
            /\ has_plus(border, j)
            /\ \A m \in (k + 1)..(j - 1) : ~has_plus(border, m)
    ELSE Len(parse_grid_columns(lines[1])) - 1

\* Every character of the border between its two ends is a rule character.
ruled_throughout(border) ==
    \A k \in 2..(Len(border) - 1) : border[k] \in {"-", "="}

\* C13: when the border line above a row of a grid table has a character
\* other than "+" at the column boundary that ends the first column of a
\* cell, the cell spans the columns up to the next boundary at which that
\* border has a "+", or up to the last column when there is none; in a table
\* of two columns a row below a border that is ruled throughout and has no
\* interior "+" is emitted as one cell (<td>, or <th> in the header) with
\* colspan="2".
C13_MissingPlusGivesColumnSpan ==
    pc = "grid_done" =>
        \A r \in 1..Len(parsed_rows) : \A c \in 1..Len(parsed_rows[r]) :
            /\ lacks_plus(border_above(r), column_of(parsed_rows[r], c) + 1)
                  => parsed_rows[r][c].colspan
                        = closing_boundary(border_above(r), column_of(parsed_rows[r], c) + 1)
                          - column_of(parsed_rows[r], c)
            /\ (Len(parse_grid_columns(lines[1])) = 3
                /\ lacks_plus(border_above(r), 1)
                /\ ruled_throughout(border_above(r)))
                  => /\ Len(parsed_rows[r]) = 1
                     /\ \E tag \in {<<"t", "d">>, <<"t", "h">>} :
                           contains(html,
                              <<"<", "t", "r", ">", "<">> \o tag \o <<" ", "c", "o", "l", "s", "p", "a", "n", "=", "\"", "2", "\"">>
                              \o (IF parsed_rows[r][1].rowspan > 1
                                  THEN <<" ", "r", "o", "w", "s", "p", "a", "n", "=", "\"", "2", "\"">> ELSE <<>>)
                              \o <<">">> \o parsed_rows[r][1].content
                              \o <<"<", "/">> \o tag \o <<">", "<", "/", "t", "r", ">", "\n">>)

C13_Witness ==
    /\ pc = "grid_done"
    /\ Len(parsed_rows) = 3
    /\ border_above(2) = <<"+", "-", "-", "-", "-", "-", "+">>
    /\ border_above(3) = <<"+", "-", "-", "-", "+", "-", "-", "-", "-", "-", "-", "-", "+">>
    /\ contains(html, <<"<", "t", "r", ">", "<", "t", "d", " ", "c", "o", "l", "s", "p", "a", "n", "=", "\"", "3", "\"", ">", "d", " ", " ", " ", "e", " ", "|", " ", "f", "<", "/", "t", "d", ">", "<", "/", "t", "r", ">">>)
    /\ contains(html, <<"<", "t", "r", ">", "<", "t", "d", ">", "g", "<", "/", "t", "d", ">", "<", "t", "d", " ", "c", "o", "l", "s", "p", "a", "n", "=", "\"", "2", "\"", ">", "h", " ", " ", " ", "i", "<", "/", "t", "d", ">", "<", "/", "t", "r", ">">>)

\* The offsets of the border lines of the simple table of the state.
simple_borders ==
    ascending({k \in 0..(Len(lines) - 1) : is_simple_border(trim(lines[k + 1]))})

\* The rows of the simple table between the lines at offsets a and b (both
\* left out), rendered with the given cell tag; border lines and dash
\* separators are no rows.
RECURSIVE rows_between(_, _, _)
rows_between(a, b, tag) ==
    IF a + 1 >= b THEN <<>>
    ELSE (IF is_simple_border(trim(lines[a + 2])) \/ is_dash_separator(trim(lines[a + 2]))
          THEN <<>>
          ELSE simple_row_html(lines[a + 2], parse_column_boundaries(trim(lines[1])), tag))
         \o rows_between(a + 1, b, tag)

\* C14: convert_simple_table renders a table text with three or more border
\* lines with a header section that ends at the second border line (the rows
\* before it are th rows inside thead, the rows behind it td rows inside
\* tbody), and a table text with two border lines without a header section
\* (all rows td).
C14_HeaderEndsAtSecondBorder ==
    (pc = "simple_done" /\ Len(lines) >= 3) =>
        html = <<"<", "t", "a", "b", "l", "e", " ", "c", "l", "a", "s", "s", "=", "\"", "s", "i", "m", "p", "l", "e", "-", "t", "a", "b", "l", "e", "\"", ">", "\n">>
               \o (IF Len(simple_borders) >= 3
                   THEN <<"<", "t", "h", "e", "a", "d", ">", "\n">> \o rows_between(0, simple_borders[2], <<"t", "h">>)
                        \o <<"<", "/", "t", "h", "e", "a", "d", ">", "\n", "<", "t", "b", "o", "d", "y", ">", "\n">>
                        \o rows_between(simple_borders[2], Len(lines), <<"t", "d">>)
                        \o <<"<", "/", "t", "b", "o", "d", "y", ">", "\n">>
                   ELSE rows_between(0, Len(lines), <<"t", "d">>))
               \o <<"<", "/", "t", "a", "b", "l", "e", ">">>

\* The line at offset k consists of identical adornment characters only.
rule_line(k) ==
    /\ Len(lines[k + 1]) > 0
    /\ is_adornment_char(lines[k + 1][1])
    /\ all_chars(lines[k + 1], lines[k + 1][1])

\* The line at offset k stands on its own: a blank line or the start of the
\* document before it, a blank line or the end of the document behind it.
stands_alone(k) ==
    /\ (k = 0 \/ is_blank(lines[k]))
    /\ (k + 1 >= Len(lines) \/ is_blank(lines[k + 2]))

\* The cursor of pass 2 of the document is behind the line at offset k.
passed(k) == pc \in {"resolve", "done"} \/ (pc = "second" /\ k < i)

\* C15: an unindented line of 4 or more identical adornment characters that
\* stands on its own is rendered as exactly one <hr>; a line of 3 or fewer
\* such characters never produces <hr>.
C15_RuleOfFourIsTransition ==
    \A k \in 0..(Len(lines) - 1) :
        (pc \in {"second", "resolve", "done"} /\ passed(k) /\ rule_line(k))
            => /\ (Len(lines[k + 1]) >= 4 /\ stands_alone(k))
                     => \E n \in 1..Len(emitted) :
                           /\ emitted[n].start = k
                           /\ emitted[n].end = k + 1
                           /\ emitted[n].out = <<"<", "h", "r", ">", "\n">>
               /\ Len(lines[k + 1]) <= 3
                     => \A n \in 1..Len(emitted) :
                           (emitted[n].start <= k /\ k < emitted[n].end)
                               => ~contains(emitted[n].out, <<"<", "h", "r">>)

C15_Witness ==
    /\ pc = "done"
    /\ \E k \in 1..(Len(lines) - 2) :
          /\ rule_line(k)
          /\ Len(lines[k + 1]) = 4
          /\ stands_alone(k)
          /\ lines[k + 1][1] = "*"
    /\ html = <<"<", "u", "l", ">", "\n", "<", "l", "i", ">", "a", "<", "/", "l", "i", ">", "\n", "<", "/", "u", "l", ">", "\n", "<", "h", "r", ">", "\n", "<", "p", ">", "q", "<", "/", "p", ">", "\n">>

\* The line at offset k is an unindented bullet line with plain item text.
bullet_line(k) ==
    /\ k < Len(lines)
    /\ Len(lines[k + 1]) > 2
    /\ lines[k + 1][1] \in {"-", "*", "+"}
    /\ lines[k + 1][2] = " "
    /\ \A p \in 3..Len(lines[k + 1]) : is_ascii_alphabetic(lines[k + 1][p])

\* The lines at offsets k..k+n-1 are a run of bullet lines that is a whole
\* list: no bullet line stands before it, a blank line or the start of the
\* document before it, and behind it the end of the document, a text line,
\* or a blank line that no bullet line and no indented line follows.
bullet_list_run(k, n) ==
    /\ \A j \in k..(k + n - 1) : bullet_line(j)
    /\ \A j \in 0..(k - 1) : ~bullet_line(j)
    /\ (k = 0 \/ is_blank(lines[k]))
    /\ ~bullet_line(k + n)
    /\ (k + n < Len(lines) /\ is_blank(lines[k + n + 1]) /\ k + n + 1 < Len(lines))
          => /\ ~bullet_line(k + n + 1)
             /\ indent_of(lines[k + n + 2]) = 0
    /\ (k + n < Len(lines) /\ ~is_blank(lines[k + n + 1]))
          => indent_of(lines[k + n + 1]) = 0

\* The <li> elements of the bullet lines at offsets k..k+n-1.
RECURSIVE list_items(_, _)
list_items(k, n) ==
    IF n = 0 THEN <<>>
    ELSE <<"<", "l", "i", ">">> \o escape_html(SliceFrom(lines[k + 1], 2)) \o <<"<", "/", "l", "i", ">", "\n">>
         \o list_items(k + 1, n - 1)

\* The text is plain up to offset k: letters and spaces only.
plain_prefix(k) ==
    \A j \in 1..k : is_ascii_alphabetic(rst[j]) \/ rst[j] = " "

\* The characters after which the backslash branch emits the character alone.
listed_punctuation ==
    {"\\", "*", Backtick, "_", "{", "}", "[", "]", "(", ")", "#", "+", "-", ".", "!", "~", "|"}

\* What a backslash before the character c is to emit, and how far the scan
\* is to move.
escape_emits(c) ==
    IF c = " " THEN <<>>
    ELSE IF c \in listed_punctuation THEN <<c>>
    ELSE IF c = "<" THEN <<"&", "l", "t", ";">>
    ELSE IF c = ">" THEN <<"&", "g", "t", ";">>
    ELSE <<"\\">>

escape_moves(c) == IF c \in {" ", "<", ">"} \cup listed_punctuation THEN 2 ELSE 1

\* C17: where the scan of process_inline, after plain text, stands at a
\* backslash that a character c follows, it emits nothing for a space, the
\* character alone for listed punctuation, the entity for < and >, and for
\* any other character a literal backslash, after which that character is
\* processed as the scan processes it anywhere; the text before and the text
\* after are glued with nothing in between.
C17_BackslashEscapes ==
    \A k \in 0..(Len(rst) - 2) :
        (pc = "inline_done" /\ plain_prefix(k) /\ At(rst, k) = "\\")
            => /\ html = Slice(rst, 0, k) \o escape_emits(At(rst, k + 1))
                         \o inline_from(rst, k + escape_moves(At(rst, k + 1)))
               /\ (\A j \in (k + 3)..Len(rst) : is_ascii_alphabetic(rst[j]) \/ rst[j] = " ")
                     => html = Slice(rst, 0, k) \o escape_emits(At(rst, k + 1))
                               \o (IF escape_moves(At(rst, k + 1)) = 2 THEN <<>>
                                   ELSE IF At(rst, k + 1) = "&" THEN <<"&", "a", "m", "p", ";">>
                                   ELSE <<At(rst, k + 1)>>)
                               \o SliceFrom(rst, k + 2)

C17_Witness ==
    /\ pc = "inline_done"
    /\ rst = <<"H", "\\", " ", ":", "s", "u", "b", ":", Backtick, "2", Backtick, "\\", " ", "O">>
    /\ html = <<"H", "<", "s", "u", "b", ">", "2", "<", "/", "s", "u", "b", ">", "O">>

\* How often the character c stands in s.
count_of(c, s) == Cardinality({k \in 1..Len(s) : s[k] = c})

\* The content with a letter in place of every character that must be escaped.
neutral(content) ==
    [k \in 1..Len(content) |-> IF content[k] \in {"<", ">", "&", "\""} THEN "x" ELSE content[k]]

\* Every & of s starts one of the four entities.
only_entities(s) ==
    \A k \in 0..(Len(s) - 1) :
        At(s, k) = "&" => \/ MatchAt(s, <<"&", "a", "m", "p", ";">>, k)
                          \/ MatchAt(s, <<"&", "l", "t", ";">>, k)
                          \/ MatchAt(s, <<"&", "g", "t", ";">>, k)
                          \/ MatchAt(s, <<"&", "q", "u", "o", "t", ";">>, k)

\* C18: for every role name, known or not, the html of a role holds no <, >,
\* & or " of the content unescaped: it has the <, > and " of the html of the
\* same role with harmless content and no more, and every & starts an entity.
C18_RoleContentIsEscaped ==
    \A role \in RoleNames : \A content \in RoleContents :
        (pc = "inline_done" /\ rst = role_text(role, content))
            => /\ only_entities(html)
               /\ \A c \in {"<", ">", "\""} :
                     count_of(c, html) <= count_of(c, render_role(role, neutral(content)))

\* The id a text is to get: lowercase, a single hyphen for every
\* maximal run of characters that are not alphanumeric, and no hyphen at
\* either end.  The text is read from offset k on, behind the id so far.
RECURSIVE id_from(_, _, _)
id_from(text, k, id) ==
    IF k >= Len(text) THEN id
    ELSE IF is_alphanumeric(At(text, k))
    THEN id_from(text, k + 1, Append(id, to_lowercase_char(At(text, k))))
    ELSE IF k > 0 /\ ~is_alphanumeric(At(text, k - 1)) THEN id_from(text, k + 1, id)
    ELSE id_from(text, k + 1, Append(id, "-"))

claimed_id(text) ==
    trim_start_matches(trim_end_matches(id_from(text, 0, <<>>), "-"), <<"-">>)

\* C19: the id of every heading is the lowercase form of its text with each
\* maximal run of non-alphanumeric characters replaced by a single hyphen,
\* and with no hyphen at its start or its end.
C19_IdIsHyphenatedLowercase ==
    \A n \in 1..Len(emitted) :
        (emitted[n].kind = "title" /\ ~aborted(emitted[n].out))
            => starts_with(emitted[n].out,
                     <<"<", "h">> \o usize_to_string(emitted[n].level) \o <<" ", "i", "d", "=", "\"">>
                     \o claimed_id(trim(lines[emitted[n].start + 1])) \o <<"\"", ">">>)

\* The block that the step appends to the emitted blocks.
new_block == emitted'[Len(emitted')]

\* The step emits a heading that is numbered: a title in the underline form,
\* of a level within the configured depth, in a document with a sectnum
\* directive.
emits_numbered_heading ==
    /\ pc = "second"
    /\ Len(emitted') = Len(emitted) + 1
    /\ new_block.kind = "title"
    /\ state.sectnum
    /\ usize_le(new_block.level, state.sectnum_depth)

\* The counters of levels 1..level joined with ".".
dotted(counters, level) ==
    join([n \in 1..level |-> usize_to_string(counters[n + 1])], <<".">>)

\* C20: on each numbered heading of level L the counter of level L goes up by
\* one, every counter of a deeper level is 0 afterwards, the counters of the
\* levels above L stay as they are, and the heading holds, before the title
\* text and separated from it by a space, the configured prefix, the counters
\* of levels 1..L joined with "." and the configured suffix.
C20_NumberingIsCounterMachine ==
    [][emits_numbered_heading =>
         /\ section_counters'[new_block.level + 1] = section_counters[new_block.level + 1] + 1
         /\ \A n \in 1..Len(section_counters) :
               /\ n - 1 > new_block.level => section_counters'[n] = 0
               /\ n - 1 < new_block.level => section_counters'[n] = section_counters[n]
         /\ new_block.out =
               <<"<", "h">> \o usize_to_string(new_block.level) \o <<" ", "i", "d", "=", "\"">>
               \o slugify(trim(lines[new_block.start + 1])) \o <<"\"", ">">>
               \o state.sectnum_prefix \o dotted(section_counters', new_block.level)
               \o state.sectnum_suffix \o <<" ">>
               \o process_inline(trim(lines[new_block.start + 1]))
               \o <<"<", "/", "h">> \o usize_to_string(new_block.level) \o <<">", "\n">>]_vars

C20_Witness ==
    /\ pc = "done"
    /\ state.sectnum
    /\ section_counters[2] = 2
    /\ section_counters[3] = 1
    /\ find(html, <<"<", "h", "2", " ", "i", "d", "=", "\"", "b", "\"", ">", "1", ".", "1", " ", "B", "<", "/", "h", "2", ">", "\n", "<", "h", "1", " ", "i", "d", "=", "\"", "c", "\"", ">", "2", " ", "C", "<", "/", "h", "1", ">", "\n", "<", "h", "2", " ", "i", "d", "=", "\"", "d", "\"", ">", "2", ".", "1", " ", "D", "<", "/", "h", "2", ">">>) # None

\* C21: in every row that span detection builds for a grid table every cell
\* has a column-span of at least 1 and a row-span of 1 or 2, and the
\* column-spans of the cells of the row, covered cells included, add up to
\* the number of columns that the "+" of the first border line give.
C21_SpansTileTheColumns ==
    pc = "grid_done" =>
        \A r \in 1..Len(parsed_rows) :
            /\ \A c \in 1..Len(parsed_rows[r]) :
                  /\ parsed_rows[r][c].colspan >= 1
                  /\ parsed_rows[r][c].rowspan \in {1, 2}
            /\ column_of(parsed_rows[r], Len(parsed_rows[r]) + 1)
                  = Cardinality({k \in 1..Len(lines[1]) : lines[1][k] = "+"}) - 1

C21_Witness ==
    /\ pc = "grid_done"
    /\ Len(parsed_rows) = 3
    /\ Len(parsed_rows[1]) = 3
    /\ Len(parsed_rows[2]) = 2
    /\ parsed_rows[2][1].colspan = 2
    /\ parsed_rows[2][2].rowspan = 2
    /\ Len(parsed_rows[3]) = 3
    /\ parsed_rows[3][2].skip

\* The line at offset k starts with a role: a colon, a name of letters, a
\* colon, and a backtick directly behind it.
role_line(k) ==
    /\ starts_with(lines[k + 1], <<":">>)
    /\ \E n \in 2..(Len(lines[k + 1]) - 2) :
          /\ \A j \in 2..n : is_ascii_alphabetic(lines[k + 1][j])
          /\ lines[k + 1][n + 1] = ":"
          /\ lines[k + 1][n + 2] = Backtick

\* The name of the role that the line at offset k starts with.
role_name(k) == Slice(lines[k + 1], 1, find(SliceFrom(lines[k + 1], 1), <<":">>) + 1)

\* C22: a line that starts with a role is never rendered as an entry of a
\* field list, whether a block starts with it or it directly follows a field.
C22_RoleLineIsNoField ==
    \A k \in 0..(Len(lines) - 1) : \A n \in 1..Len(emitted) :
        (role_line(k) /\ emitted[n].kind = "field_list"
         /\ emitted[n].start <= k /\ k < emitted[n].end)
            => ~contains(emitted[n].out, <<"<", "d", "t", ">">> \o role_name(k) \o <<"<", "/", "d", "t", ">">>)

\* A marker of an enumerated item: digits only, one letter, "#", or letters
\* of roman numerals only.
enum_marker(m) ==
    /\ Len(m) > 0
    /\ \/ \A k \in 1..Len(m) : is_ascii_digit(m[k])
       \/ Len(m) = 1 /\ is_ascii_alphabetic(m[1])
       \/ m = <<"#">>
       \/ \A k \in 1..Len(m) :
             to_lowercase_char(m[k]) \in {"i", "v", "x", "l", "c", "d", "m"}

\* The line t starts with a marker in one of the forms "X.", "X)" and "(X)",
\* and a space directly behind it.
enumerated_line(t) ==
    \E n \in 1..Len(t) :
        \/ /\ enum_marker(SubSeq(t, 1, n))
           /\ n + 2 <= Len(t) /\ t[n + 1] \in {".", ")"} /\ t[n + 2] = " "
        \/ /\ t[1] = "(" /\ enum_marker(SubSeq(t, 2, n))
           /\ n + 2 <= Len(t) /\ t[n + 1] = ")" /\ t[n + 2] = " "

\* C23: the test for an enumerated item of pass 2 and the one of the line
\* classifier accept the same lines, those that start with a marker (digits
\* only, one letter, "#", or letters of roman numerals only) in the form
\* "X.", "X)" or "(X)" and a space directly behind it.
C23_SameEnumeratedLines ==
    pc = "enum_done" =>
        /\ emitted[1].accepts = emitted[2].accepts
        /\ emitted[1].accepts = enumerated_line(trim(rst))

\* C24: the calls of convert_rst_content are never nested deeper than 100.
C24_NestingDepthBounded == pc = "nest" => nesting_depth <= 100


\* C25: convert is deterministic.  Whatever order the final substitution pass
\* visits the substitution map in, it returns the same string: the string that
\* resolve_substitutions returns for one iteration order of the map is the
\* string it returns for every other iteration order.
C25_ResultIndependentOfMapOrder ==
    [][pc = "resolve" /\ pc' = "done" =>
          \A order \in iteration_orders(DOMAIN state.substitutions) :
              html' = resolve_substitutions(html, state, order)]_vars

\* C26: pass 1 and pass 2 of a document recognise the same section titles.
\* When pass 2 has run, the (level, title) pairs that pass 1 recorded are the
\* (level, title) pairs of the headings that pass 2 emitted, in the same order.
C26_PassesAgreeOnTitles ==
    pc \in {"resolve", "done"} => state.section_titles = emitted_headings(1)

\* C27: in the html of a table the section tags are balanced and ordered.
\* A <thead> is closed by a </thead> that stands before any <tbody>, and a
\* </tbody> has a <tbody> before it.
C27_SectionTagsBalanced ==
    pc \in {"simple_done", "grid_done"} =>
        /\ contains(html, <<"<", "t", "h", "e", "a", "d", ">">>) =>
              /\ find(html, <<"<", "/", "t", "h", "e", "a", "d", ">">>) > find(html, <<"<", "t", "h", "e", "a", "d", ">">>)
              /\ contains(html, <<"<", "t", "b", "o", "d", "y", ">">>) =>
                    find(html, <<"<", "/", "t", "h", "e", "a", "d", ">">>) < find(html, <<"<", "t", "b", "o", "d", "y", ">">>)
        /\ contains(html, <<"<", "/", "t", "b", "o", "d", "y", ">">>) =>
              /\ contains(html, <<"<", "t", "b", "o", "d", "y", ">">>)
              /\ find(html, <<"<", "t", "b", "o", "d", "y", ">">>) < find(html, <<"<", "/", "t", "b", "o", "d", "y", ">">>)

\* C28: every heading that pass 2 emits is one of <h1> .. <h6>.  The level
\* assigned to the adornment character of an emitted heading is between 1 and
\* 6, and the html of the heading opens with the tag of that level.
C28_HeadingLevelsOneToSix ==
    \A n \in 1..Len(emitted) :
        emitted[n].kind \in {"title", "overline"} /\ ~aborted(emitted[n].out) =>
            /\ emitted[n].level \in 1..6
            /\ \E l \in 1..6 : starts_with(emitted[n].out, <<"<", "h">> \o usize_to_string(l) \o <<" ">>)

\* The lines of the document from line start up to line end, trimmed and
\* joined by single spaces.
lines_passed(start, end) ==
    join([k \in 1..(end - start) |-> trim(lines[start + k])], <<" ">>)

\* C29: paragraph collection discards no text.  The paragraph text that
\* collect_paragraph returns for a paragraph of the document is made of every
\* line the cursor is moved past.
C29_ParagraphKeepsEveryLine ==
    \A n \in 1..Len(emitted) :
        emitted[n].kind = "paragraph" =>
            collect_paragraph(lines, emitted[n].start).para
                = lines_passed(emitted[n].start,
                               collect_paragraph(lines, emitted[n].start).end)

\* The number of <ul> elements that are open at offset k of text.
open_lists(text, k) ==
    Cardinality({j \in 0..(k - 1) : MatchAt(text, <<"<", "u", "l", ">">>, j)})
        - Cardinality({j \in 0..(k - 1) : MatchAt(text, <<"<", "/", "u", "l", ">">>, j)})

\* C30: bullet-list nesting is preserved.  In the html of a nested bullet
\* list, the text of an item that stands k levels below the top-level item is
\* inside k + 1 nested <ul> elements.
C30_BulletNestingPreserved ==
    pc = "done" /\ rst \in BulletTreeDocs =>
        \A p \in 1..Len(lines) :
            /\ contains(html, <<UpperSeq[p]>>)
            /\ open_lists(html, find(html, <<UpperSeq[p]>>)) = indent_of(lines[p]) \div 2 + 1

==============================================================================
